---- MODULE Spec2Model ----
(***************************************************************************)
(* Velvet ORM core: the connection pool, the identifier sanitizer, the     *)
(* SQLite grammar, the query compiler with its compile cache, and the      *)
(* relation eager loader.                                                  *)
(* Each component has its own specification over the shared variables; a   *)
(* component's actions leave the other components' variables unchanged.    *)
(***************************************************************************)
EXTENDS Integers, Sequences, FiniteSets, TLC

(***************************************************************************)
(* Bounds of the model.                                                    *)
(***************************************************************************)
\* PoolConfig.max of the pool under test
PoolMax == 1
\* number of concurrent callers of acquire()/release()
NumCallers == 3
\* how many resources the factory may create in one run
MaxCreated == 2

\* The most rows the pivot table starts with, and the longest list given to sync
MaxPivotRows == 3

MaxSyncIds == 2

Callers == 1..NumCallers
Resources == 1..MaxCreated
\* an object that no call of the factory returned
Foreign == MaxCreated + 1

SeqToSet(s) == {s[i] : i \in 1..Len(s)}

VARIABLES
  \* ---- ConnectionPool (connection/ConnectionPool.ts)
  available,   \* this.available: idle resources, oldest first
  inUse,       \* this.inUse: set of resources handed out
  pending,     \* this.pending: resolvers of suspended acquire() calls
  hasDestroy,  \* whether a destructor was passed to the constructor
  pc,          \* per caller: where its acquire() call stands
  held,        \* per caller: <<r>> when its acquire() resolved with r, else <<>>
  stale,       \* <<[caller, resource, ignored]>>: the last release() call, else <<>>
  created,     \* number of resources the factory has produced
  drainQ,      \* per running drain(), the resources it still has to destroy
  destroyed,   \* log of destructor calls, in call order
  arrivals,    \* ghost: the suspended acquire() calls, in the order they were made
  lastServed,  \* ghost: <<w>> when the last pool operation resolved waiter w
  \* ---- QuerySanitizer (support/QuerySanitizer.ts)
  sanInput,    \* the identifier passed to sanitizeIdentifier, as its characters
  sanResult,   \* what the call returned or threw; <<>> before the call
  \* ---- QueryCompiler (query/QueryCompiler.ts)
  compQueries, \* the two query states (components, soft-delete config) in play
  compCache,   \* this.cache, in insertion order
  compLast,    \* <<call>>: the last compileSelect call and what the caller holds
  compMutations, \* how many times a caller has changed a bindings array it got
  \* ---- SqliteGrammar called directly (query/grammar/SqliteGrammar.ts)
  gramInput,   \* the arguments: table, values entries, WHERE clauses
  gramResult,  \* <<call>>: which compile function ran and what it returned
  \* ---- RelationLoader (model/RelationLoader.ts) and HasMany
  loadTables,  \* the rows of the related tables, in the order the database returns them
  loadStack,   \* the active load() calls, innermost last
  loadRel,     \* model.relations of every model instance that has one set
  loadLog,     \* ghost: queries issued, results assigned, nested load() calls
  loadError,   \* <<error>>: the error object load() threw, else <<>>
  \* ---- BelongsToMany attach / detach / sync (relations/BelongsToMany.ts)
  pivotRows,   \* the pivot table: its rows [parent, related] in insertion order
  syncCall,    \* <<call>>: the sync() call made, its position and what is left
  \* ---- Builder and QueryState: raw WHERE clauses
  bldState,    \* per builder: its WHERE list, its allowUnsafeRaw flag, and whether
               \* the caller ever opted in on it or on the builder it was cloned from
  bldLast,      \* <<call>>: the last whereRaw() call and what it did
  \* ---- QuerySanitizer.validateLimit / validateOffset called with a number
  valInput,    \* [limit, offset]: the values passed
  valResult,    \* [limit, offset]: <<>> before the call, else <<what it returned or threw>>
  \* ---- Database.transaction on one connection (Database.ts, SqliteDriver.ts)
  txConn,      \* the driver's fields transactionActive and savepointLevel
  txDb,        \* the SQLite connection: the rows it shows, and the snapshots
               \* taken by BEGIN and SAVEPOINT that are still open
  txTask,       \* per task: where its Database.transaction call stands
  \* ---- LRUCache (cache/LRUCache)
  lruCache,    \* this.cache: the Map's entries [key, value] in insertion order
  lruTouched,  \* ghost: the keys ever set or hit by get, least recently touched first
  lruLast      \* <<call>>: the last get or set call and what it did

poolVars == <<available, inUse, pending, hasDestroy, pc, held, stale, created,
              drainQ, destroyed, arrivals, lastServed>>

sanVars == <<sanInput, sanResult>>

compVars == <<compQueries, compCache, compLast, compMutations>>

gramVars == <<gramInput, gramResult>>

loadVars == <<loadTables, loadStack, loadRel, loadLog, loadError>>

pivotVars == <<pivotRows, syncCall>>

bldVars == <<bldState, bldLast>>

valVars == <<valInput, valResult>>

txVars == <<txConn, txDb, txTask>>

lruVars == <<lruCache, lruTouched, lruLast>>

vars == <<poolVars, sanVars, compVars, gramVars, loadVars, pivotVars, bldVars, valVars, txVars, lruVars>>

(***************************************************************************)
(* Text.  A string is modelled as the sequence of its characters (strings  *)
(* of length one), so that trimming, splitting and pattern tests are       *)
(* computed as the code computes them.                                     *)
(***************************************************************************)
LowerCase == {"a","b","c","d","e","f","g","h","i","j","k","l","m",
              "n","o","p","q","r","s","t","u","v","w","x","y","z"}
UpperCase == {"A","B","C","D","E","F","G","H","I","J","K","L","M",
              "N","O","P","Q","R","S","T","U","V","W","X","Y","Z"}
Digits == {"0","1","2","3","4","5","6","7","8","9"}
WhiteSpace == {" ", "\t", "\n"}

\* String.prototype.trimStart
TrimStart(s) ==
  IF \A i \in 1..Len(s) : s[i] \in WhiteSpace THEN <<>>
  ELSE SubSeq(s, CHOOSE i \in 1..Len(s) :
                   /\ s[i] \notin WhiteSpace
                   /\ \A j \in 1..(i - 1) : s[j] \in WhiteSpace,
              Len(s))

\* String.prototype.trimEnd
TrimEnd(s) ==
  IF \A i \in 1..Len(s) : s[i] \in WhiteSpace THEN <<>>
  ELSE SubSeq(s, 1, CHOOSE i \in 1..Len(s) :
                      /\ s[i] \notin WhiteSpace
                      /\ \A j \in (i + 1)..Len(s) : s[j] \in WhiteSpace)

\* String.prototype.trim
Trim(s) == TrimEnd(TrimStart(s))

\* the position of the k-th dot of s
NthDot(s, k) ==
  CHOOSE i \in 1..Len(s) :
    /\ s[i] = "."
    /\ Cardinality({j \in 1..(i - 1) : s[j] = "."}) = k - 1

\* String.prototype.split('.'): the segments between the dots
SplitDots(s) ==
  [k \in 1..(Cardinality({i \in 1..Len(s) : s[i] = "."}) + 1) |->
     SubSeq(s,
            IF k = 1 THEN 1 ELSE NthDot(s, k - 1) + 1,
            IF k = Cardinality({i \in 1..Len(s) : s[i] = "."}) + 1
            THEN Len(s) ELSE NthDot(s, k) - 1)]

\* Array.prototype.join('.')
RECURSIVE JoinDots(_)
JoinDots(parts) ==
  IF Len(parts) = 0 THEN <<>>
  ELSE IF Len(parts) = 1 THEN parts[1]
  ELSE parts[1] \o <<".">> \o JoinDots(Tail(parts))

\* the character ch repeated n times
Repeat(ch, n) == [i \in 1..n |-> ch]

(***************************************************************************)
(* QuerySanitizer                                                          *)
(***************************************************************************)
MAX_IDENTIFIER_LENGTH == 64

\* a call that returned v
Ok(v) == [ok |-> TRUE, value |-> v]
\* a call that threw a QueryException with this code
Thrown(code) == [ok |-> FALSE, code |-> code]

\* Mutant of MatchesIdentifierPattern: only the first character is tested
MatchesUnanchored(s) ==
  s # <<>> /\ Head(s) \in LowerCase \cup UpperCase \cup {"_"}

\* IDENTIFIER_PATTERN.test(s): /^[a-zA-Z_][a-zA-Z0-9_]*$/
MatchesIdentifierPattern(s) ==
  /\ s # <<>>
  /\ Head(s) \in LowerCase \cup UpperCase \cup {"_"}
  /\ \A i \in 2..Len(s) : s[i] \in LowerCase \cup UpperCase \cup Digits \cup {"_"}

sanitizeSingleIdentifier(identifier) ==
  IF identifier = <<"*">> THEN Ok(identifier)
  ELSE IF ~MatchesIdentifierPattern(identifier)
  THEN Thrown("INVALID_IDENTIFIER_PATTERN")
  ELSE Ok(identifier)

\* the results of a sequence of calls: all returned, or the first that threw
AllOk(rs) == \A i \in 1..Len(rs) : rs[i].ok
FirstThrown(rs) ==
  rs[CHOOSE i \in 1..Len(rs) : ~rs[i].ok /\ \A j \in 1..(i - 1) : rs[j].ok]
ValuesOf(rs) == [i \in 1..Len(rs) |-> rs[i].value]

\* parts.map(...).join('.') over the results of the map
JoinSanitized(rs) ==
  IF AllOk(rs) THEN Ok(JoinDots(ValuesOf(rs))) ELSE FirstThrown(rs)

\* the qualified-name branch of sanitizeIdentifier, on identifier.split('.')
SanitizeQualified(parts) ==
  IF Len(parts) > 2 THEN Thrown("INVALID_QUALIFIED_NAME")
  ELSE JoinSanitized([i \in 1..Len(parts) |-> sanitizeSingleIdentifier(parts[i])])

\* sanitizeIdentifier after `identifier = identifier.trim()`
SanitizeTrimmed(id) ==
  IF id = <<>> THEN Thrown("INVALID_IDENTIFIER")
  ELSE IF Len(id) > MAX_IDENTIFIER_LENGTH THEN Thrown("IDENTIFIER_TOO_LONG")
  ELSE IF \E i \in 1..Len(id) : id[i] = "." THEN SanitizeQualified(SplitDots(id))
  ELSE sanitizeSingleIdentifier(id)

sanitizeIdentifier(identifier) ==
  IF identifier = <<>> THEN Thrown("INVALID_IDENTIFIER")
  ELSE SanitizeTrimmed(Trim(identifier))

sanitizeTableName(tableName) == sanitizeIdentifier(tableName)
sanitizeColumnName(columnName) == sanitizeIdentifier(columnName)

\* Identifiers the sanitizer is called with: every string of up to MaxIdLen
\* characters over IdAlphabet, the same strings padded out beyond the
\* maximum length, and the examples of the documentation.
MaxIdLen == 3
IdAlphabet == {"a", "Z", "1", "_", "-", ".", "*", " ", ";"}

RECURSIVE StringsUpTo(_)
StringsUpTo(n) ==
  IF n = 0 THEN {<<>>}
  ELSE StringsUpTo(n - 1) \cup
       {Append(s, ch) : s \in {t \in StringsUpTo(n - 1) : Len(t) = n - 1},
                        ch \in IdAlphabet}

ShortIdentifiers == StringsUpTo(MaxIdLen)

DropTable == <<"u","s","e","r","s",";"," ","D","R","O","P"," ",
               "T","A","B","L","E"," ","x">>

LongIdentifiers ==
  {Repeat("a", MAX_IDENTIFIER_LENGTH - Len(s)) \o s : s \in StringsUpTo(1)}
  \cup {Repeat("a", MAX_IDENTIFIER_LENGTH + 1 - Len(s)) \o s : s \in StringsUpTo(2)}
  \cup {<<" ">> \o Repeat("a", MAX_IDENTIFIER_LENGTH) \o <<" ">>}

IdentifierInputs == ShortIdentifiers \cup LongIdentifiers \cup {DropTable}

SanIdle == sanInput = <<>> /\ sanResult = <<>>

InitSan == sanInput \in IdentifierInputs /\ sanResult = <<>>

\* QuerySanitizer.sanitizeIdentifier(sanInput)
SanitizeCall ==
  /\ sanResult = <<>>
  /\ sanResult' = <<sanitizeIdentifier(sanInput)>>
  /\ UNCHANGED sanInput

(***************************************************************************)
(* Values.  JavaScript values that reach the compiler as bindings, limits  *)
(* and offsets.                                                            *)
(***************************************************************************)
Undefined == [t |-> "undefined"]
Null == [t |-> "null"]
NaN == [t |-> "NaN"]
\* a number that is not an integer, such as 1.5
Fraction == [t |-> "fraction"]
Num(n) == [t |-> "int", n |-> n]

\* Number.isInteger(v)
IsInteger(v) == v.t = "int"

\* JSON.stringify of a value that is an array element or a property that is
\* kept: NaN is written as null, and so is undefined inside an array
JsonValue(v) == IF v.t \in {"NaN", "undefined"} THEN Null ELSE v

(***************************************************************************)
(* SQL text is a sequence of units: a keyword or punctuation emitted by    *)
(* the grammar is one unit, text supplied by the caller is one unit per    *)
(* character.  The placeholder is the unit "?".                            *)
(***************************************************************************)
Sp == <<" ">>
Comma == <<", ">>
Placeholder == <<"?">>

\* Array.prototype.join(sep) over texts
RECURSIVE JoinWith(_, _)
JoinWith(parts, sep) ==
  IF Len(parts) = 0 THEN <<>>
  ELSE IF Len(parts) = 1 THEN parts[1]
  ELSE parts[1] \o sep \o JoinWith(Tail(parts), sep)

\* the number of placeholders in a text
CountPlaceholders(text) == Cardinality({i \in 1..Len(text) : text[i] = "?"})

\* QuerySanitizer.sanitizeDirection
sanitizeDirection(direction) ==
  IF direction \in {"ASC", "asc", "Asc"} THEN Ok("ASC")
  ELSE IF direction \in {"DESC", "desc", "Desc"} THEN Ok("DESC")
  ELSE Thrown("INVALID_SORT_DIRECTION")

LIMIT_CEILING == 1000000

\* QuerySanitizer.validateLimit
validateLimit(limit) ==
  IF ~IsInteger(limit) THEN Thrown("INVALID_LIMIT")
  ELSE IF limit.n < 0 THEN Thrown("INVALID_LIMIT")
  ELSE IF limit.n > LIMIT_CEILING THEN Thrown("LIMIT_TOO_LARGE")
  ELSE Ok(limit)

\* QuerySanitizer.validateOffset
validateOffset(offset) ==
  IF ~IsInteger(offset) THEN Thrown("INVALID_OFFSET")
  ELSE IF offset.n < 0 THEN Thrown("INVALID_OFFSET")
  ELSE Ok(offset)

\* the values the validators are called with: integers around zero and
\* around the ceiling of validateLimit, and values that are not integers
NumberInputs ==
  {Num(0 - 1), Num(0), Num(1), Num(LIMIT_CEILING - 1), Num(LIMIT_CEILING),
   Num(LIMIT_CEILING + 1), Num(2 * LIMIT_CEILING), NaN, Fraction, Undefined, Null}

ValIdle == valInput = <<>> /\ valResult = <<>>

InitValidator ==
  /\ valInput \in [limit : NumberInputs, offset : NumberInputs]
  /\ valResult = [limit |-> <<>>, offset |-> <<>>]

\* QuerySanitizer.validateLimit(valInput.limit)
ValidateLimitCall ==
  /\ valResult.limit = <<>>
  /\ valResult' = [valResult EXCEPT !.limit = <<validateLimit(valInput.limit)>>]
  /\ UNCHANGED valInput

\* QuerySanitizer.validateOffset(valInput.offset)
ValidateOffsetCall ==
  /\ valResult.offset = <<>>
  /\ valResult' = [valResult EXCEPT !.offset = <<validateOffset(valInput.offset)>>]
  /\ UNCHANGED valInput

(***************************************************************************)
(* SqliteGrammar and Grammar                                               *)
(***************************************************************************)
StartsWithQuote(value) == value # <<>> /\ Head(value) = "\""

\* SqliteGrammar.wrapSingle
wrapSingle(value) ==
  IF value = <<"*">> \/ StartsWithQuote(value) THEN value
  ELSE <<"\"">> \o value \o <<"\"">>

\* SqliteGrammar.wrap after `const sanitized = this.sanitize(value)`
WrapSanitized(sanitized) ==
  IF ~sanitized.ok THEN sanitized
  ELSE IF \E i \in 1..Len(sanitized.value) : sanitized.value[i] = "."
  THEN Ok(JoinDots([p \in 1..Len(SplitDots(sanitized.value)) |->
                      wrapSingle(SplitDots(sanitized.value)[p])]))
  ELSE Ok(wrapSingle(sanitized.value))

\* SqliteGrammar.wrap
wrap(value) ==
  IF value = <<"*">> \/ StartsWithQuote(value) THEN Ok(value)
  ELSE WrapSanitized(sanitizeIdentifier(value))

\* the texts of several calls joined by sep, or the first exception
Collect(rs, sep) ==
  IF AllOk(rs) THEN Ok(JoinWith(ValuesOf(rs), sep)) ELSE FirstThrown(rs)

\* a template literal around the text a call returned
Around(before, r, after) ==
  IF r.ok THEN Ok(before \o r.value \o after) ELSE r

\* Grammar.wrapArray(values).join(', ')
WrapList(values) == Collect([i \in 1..Len(values) |-> wrap(values[i])], Comma)

\* one compiled piece: its text and the bindings it pushed
Piece(sql, bindings) == Ok([sql |-> sql, bindings |-> bindings])
WithBindings(text, bindings) ==
  IF text.ok THEN Piece(text.value, bindings) ELSE text

NotText(where) == IF where.not THEN <<"NOT ">> ELSE <<>>

\* Grammar.compileBasicWhere
compileBasicWhere(where, prefix) ==
  WithBindings(
    Around(<<prefix>> \o Sp \o NotText(where), wrap(where.column),
           Sp \o <<where.operator>> \o Sp \o Placeholder),
    <<where.value>>)

\* Grammar.compileInWhere
compileInWhere(where, prefix) ==
  WithBindings(
    Around(<<prefix>> \o Sp, wrap(where.column),
           Sp \o NotText(where) \o <<"IN (">>
             \o JoinWith([i \in 1..Len(where.values) |-> Placeholder], Comma)
             \o <<")">>),
    where.values)

\* Grammar.compileNullWhere
compileNullWhere(where, prefix) ==
  WithBindings(
    Around(<<prefix>> \o Sp, wrap(where.column),
           Sp \o <<(IF where.not THEN "IS NOT NULL" ELSE "IS NULL")>>),
    <<>>)

\* const [min, max] = where.values
ElementOrUndefined(values, i) == IF i <= Len(values) THEN values[i] ELSE Undefined

\* Grammar.compileBetweenWhere
compileBetweenWhere(where, prefix) ==
  WithBindings(
    Around(<<prefix>> \o Sp, wrap(where.column),
           Sp \o NotText(where) \o <<"BETWEEN ">> \o Placeholder \o <<" AND ">>
             \o Placeholder),
    <<ElementOrUndefined(where.values, 1), ElementOrUndefined(where.values, 2)>>)

\* Grammar.compileRawWhere: the clause's SQL fragment (where.value, here
\* where.sql) is copied as it is
compileRawWhere(where, prefix) ==
  Piece(<<prefix>> \o Sp \o where.sql, where.values)

\* Grammar.compileWheres: the prefix of the clause at this position
WherePrefix(where, index) == IF index = 1 THEN "WHERE" ELSE where.boolean

\* Grammar.compileWheres, one clause
CompileWhere(where, prefix) ==
  CASE where.type = "basic" -> compileBasicWhere(where, prefix)
    [] where.type = "in" -> compileInWhere(where, prefix)
    [] where.type = "null" -> compileNullWhere(where, prefix)
    [] where.type = "between" -> compileBetweenWhere(where, prefix)
    [] where.type = "raw" -> compileRawWhere(where, prefix)
    [] OTHER -> Piece(<<>>, <<>>)

\* the bindings of several pieces, in order
RECURSIVE ConcatBindings(_)
ConcatBindings(pieces) ==
  IF Len(pieces) = 0 THEN <<>>
  ELSE Head(pieces).value.bindings \o ConcatBindings(Tail(pieces))

\* compiled.join(' ') and the bindings array the clauses pushed to
JoinPieces(rs) ==
  IF ~AllOk(rs) THEN FirstThrown(rs)
  ELSE Piece(JoinWith([i \in 1..Len(rs) |-> rs[i].value.sql], Sp), ConcatBindings(rs))

\* Grammar.compileWheres
compileWheres(wheres) ==
  IF Len(wheres) = 0 THEN Piece(<<>>, <<>>)
  ELSE JoinPieces([i \in 1..Len(wheres) |->
                     CompileWhere(wheres[i], WherePrefix(wheres[i], i))])

\* Grammar.compileOrders, one clause: the direction is checked first
OrderText(dir, col) ==
  IF ~dir.ok THEN dir
  ELSE IF ~col.ok THEN col
  ELSE Ok(col.value \o Sp \o <<dir.value>>)

\* Grammar.compileOrders
compileOrders(orders) ==
  Around(<<"ORDER BY ">>,
         Collect([i \in 1..Len(orders) |->
                    OrderText(sanitizeDirection(orders[i].direction),
                              wrap(orders[i].column))], Comma),
         <<>>)

\* Grammar.compileJoins, one clause, from its three wrapped identifiers
JoinText(join, rs) ==
  IF ~AllOk(rs) THEN FirstThrown(rs)
  ELSE Ok(<<join.type, " JOIN ">> \o rs[1].value \o <<" ON ">> \o rs[2].value
            \o Sp \o <<join.operator>> \o Sp \o rs[3].value)

\* Grammar.compileJoins
compileJoins(joins) ==
  Collect([i \in 1..Len(joins) |->
             JoinText(joins[i], <<wrap(joins[i].table), wrap(joins[i].first),
                                  wrap(joins[i].second)>>)], Sp)

\* the steps of a compile function, in the order the code runs them: each is
\* a result whose value is a text, kept when keep is TRUE
Step(keep, result) == [keep |-> keep, result |-> result]
ResultsOf(steps) == [i \in 1..Len(steps) |-> steps[i].result]

\* parts.join(' ') over the steps that are kept, or the first exception
JoinKept(rs, bindings) ==
  IF ~AllOk(rs) THEN [ok |-> FALSE, code |-> FirstThrown(rs).code]
  ELSE Piece(JoinWith(ValuesOf(rs), Sp), bindings)
JoinSteps(steps, bindings) ==
  JoinKept(ResultsOf(SelectSeq(steps, LAMBDA st : st.keep)), bindings)

TextOf(piece) == IF piece.ok THEN Ok(piece.value.sql) ELSE piece
BindingsOf(piece) == IF piece.ok THEN piece.value.bindings ELSE <<>>

NumberText(keyword, validated) ==
  IF validated.ok THEN Ok(<<keyword, ToString(validated.value.n)>>) ELSE validated

\* SqliteGrammar.compileSelect, given the compiled WHERE clauses
SelectWith(components, wheres) ==
  JoinSteps(
    << Step(TRUE,
            Around(<<"SELECT ">>
                     \o (IF components.distinct THEN <<"DISTINCT ">> ELSE <<>>),
                   IF Len(components.columns) > 0
                   THEN WrapList(components.columns) ELSE Ok(<<"*">>),
                   <<>>)),
       Step(TRUE, Around(<<"FROM ">>, wrap(components.table), <<>>)),
       Step(Len(components.joins) > 0, compileJoins(components.joins)),
       Step(Len(components.wheres) > 0, TextOf(wheres)),
       Step(Len(components.orders) > 0, compileOrders(components.orders)),
       Step(components.limit # Undefined,
            NumberText("LIMIT ", validateLimit(components.limit))),
       Step(components.offset # Undefined,
            NumberText("OFFSET ", validateOffset(components.offset))) >>,
    BindingsOf(wheres))

\* SqliteGrammar.compileSelect
GrammarCompileSelect(components) ==
  SelectWith(components, compileWheres(components.wheres))

ColumnsOf(values) == [i \in 1..Len(values) |-> values[i].column]
BoundValues(values) == [i \in 1..Len(values) |-> values[i].value]

\* SqliteGrammar.compileInsert after `wrappedColumns` was computed: the
\* columns are wrapped before the table
InsertWith(table, values, wrappedColumns) ==
  IF ~wrappedColumns.ok THEN wrappedColumns
  ELSE WithBindings(
         Around(<<"INSERT INTO ">>, wrap(table),
                <<" (">> \o wrappedColumns.value \o <<") VALUES (">>
                  \o JoinWith([i \in 1..Len(values) |-> Placeholder], Comma)
                  \o <<")">>),
         BoundValues(values))

\* SqliteGrammar.compileInsert; values is the list of the object's
\* [column, value] entries in key order
compileInsert(table, values) ==
  InsertWith(table, values, WrapList(ColumnsOf(values)))

\* SqliteGrammar.compileUpdate after `sets` was computed: the SET columns are
\* wrapped before the table, the WHERE clauses are compiled last
UpdateWith(table, values, wheres, sets, compiledWheres) ==
  IF ~sets.ok THEN sets
  ELSE JoinSteps(
         << Step(TRUE, Around(<<"UPDATE ">>, wrap(table), <<>>)),
            Step(TRUE, Around(<<"SET ">>, sets, <<>>)),
            Step(Len(wheres) > 0, TextOf(compiledWheres)) >>,
         BoundValues(values) \o BindingsOf(compiledWheres))

\* SqliteGrammar.compileUpdate
compileUpdate(table, values, wheres) ==
  UpdateWith(table, values, wheres,
             Collect([i \in 1..Len(values) |->
                        Around(<<>>, wrap(values[i].column),
                               <<" = ">> \o Placeholder)], Comma),
             compileWheres(wheres))

\* SqliteGrammar.compileDelete, given the compiled WHERE clauses
DeleteWith(table, wheres, compiledWheres) ==
  JoinSteps(
    << Step(TRUE, Around(<<"DELETE FROM ">>, wrap(table), <<>>)),
       Step(Len(wheres) > 0, TextOf(compiledWheres)) >>,
    BindingsOf(compiledWheres))

\* SqliteGrammar.compileDelete
compileDelete(table, wheres) == DeleteWith(table, wheres, compileWheres(wheres))

(***************************************************************************)
(* QueryCompiler                                                           *)
(***************************************************************************)
\* no SoftDeleteConfig was passed
NoSoftDelete ==
  [present |-> FALSE, column |-> <<>>, includeTrashed |-> FALSE, onlyTrashed |-> FALSE]

\* `{...clause, column: <sanitized>}`
WithColumn(clause, col) ==
  IF col.ok THEN Ok([clause EXCEPT !.column = col.value]) ELSE col

\* QueryCompiler.sanitizeComponents, one WHERE clause
SanitizeWhere(where) ==
  IF where.column = <<>> THEN Ok(where)
  ELSE IF where.type = "raw" THEN Ok(where)
  ELSE WithColumn(where, sanitizeIdentifier(where.column))

\* `{...join, table, first, second}` from the three sanitized identifiers
WithJoinNames(join, rs) ==
  IF ~AllOk(rs) THEN FirstThrown(rs)
  ELSE Ok([join EXCEPT !.table = rs[1].value, !.first = rs[2].value,
                       !.second = rs[3].value])

\* QueryCompiler.sanitizeComponents, one JOIN clause
SanitizeJoin(join) ==
  WithJoinNames(join, <<sanitizeTableName(join.table), sanitizeIdentifier(join.first),
                        sanitizeIdentifier(join.second)>>)

\* QueryCompiler.sanitizeComponents, one ORDER BY clause
SanitizeOrder(order) == WithColumn(order, sanitizeIdentifier(order.column))

\* the object sanitizeComponents returns, from the results of its calls in
\* the order it makes them
SanitizedFrom(components, table, columns, joins, orders, wheres) ==
  IF ~AllOk(<<table>> \o columns \o joins \o orders \o wheres)
  THEN FirstThrown(<<table>> \o columns \o joins \o orders \o wheres)
  ELSE Ok([components EXCEPT
             !.table = table.value,
             !.columns = ValuesOf(columns),
             !.joins = ValuesOf(joins),
             !.orders = ValuesOf(orders),
             !.wheres = ValuesOf(wheres)])

\* QueryCompiler.sanitizeComponents
sanitizeComponents(components) ==
  SanitizedFrom(components,
    sanitizeTableName(components.table),
    [i \in 1..Len(components.columns) |-> sanitizeIdentifier(components.columns[i])],
    [i \in 1..Len(components.joins) |-> SanitizeJoin(components.joins[i])],
    [i \in 1..Len(components.orders) |-> SanitizeOrder(components.orders[i])],
    [i \in 1..Len(components.wheres) |-> SanitizeWhere(components.wheres[i])])

\* QueryCompiler.sanitizeSoftDelete
sanitizeSoftDelete(softDelete) ==
  IF ~softDelete.present THEN Ok(softDelete)
  ELSE IF softDelete.column = <<>> THEN Ok(softDelete)
  ELSE WithColumn(softDelete, sanitizeColumnName(softDelete.column))

\* JSON.stringify of a property: a property whose value is undefined is left out
JsonProperty(v) == IF v = Undefined THEN [t |-> "omitted"] ELSE JsonValue(v)

\* JSON.stringify of one WHERE clause
JsonWhere(where) ==
  [where EXCEPT !.value = JsonProperty(where.value),
                !.values = [i \in 1..Len(where.values) |-> JsonValue(where.values[i])]]

\* QueryCompiler.getCacheKey: the JSON text, as the structure it spells out
getCacheKey(components, softDelete) ==
  [table |-> components.table,
   columns |-> components.columns,
   wheres |-> [i \in 1..Len(components.wheres) |-> JsonWhere(components.wheres[i])],
   joins |-> components.joins,
   orders |-> components.orders,
   limit |-> JsonValue(components.limit),
   offset |-> JsonValue(components.offset),
   distinct |-> components.distinct,
   softDelete |-> softDelete]

\* the implicit clause on the soft-delete column
SoftDeleteWhere(column, not) ==
  [type |-> "null", column |-> column, operator |-> "=", value |-> Undefined,
   values |-> <<>>, boolean |-> "AND", not |-> not, sql |-> <<>>]

\* Mutant of WithSoftDelete: the implicit clause is put before the caller's
SoftDeleteFirst(wheres, softDelete) ==
  IF softDelete.present /\ softDelete.column # <<>> /\ ~softDelete.includeTrashed
  THEN <<SoftDeleteWhere(softDelete.column, FALSE)>> \o wheres
  ELSE wheres

\* QueryCompiler.compileSelect: the WHERE list handed to the grammar
WithSoftDelete(wheres, softDelete) ==
  IF softDelete.present /\ softDelete.column # <<>>
  THEN IF softDelete.onlyTrashed
       THEN Append(wheres, SoftDeleteWhere(softDelete.column, TRUE))
       ELSE IF ~softDelete.includeTrashed
       THEN Append(wheres, SoftDeleteWhere(softDelete.column, FALSE))
       ELSE wheres
  ELSE wheres

\* the position of the cache entry with this key, 0 when there is none
CacheIndex(entries, key) ==
  IF \E i \in 1..Len(entries) : entries[i].key = key
  THEN CHOOSE i \in 1..Len(entries) : entries[i].key = key
  ELSE 0

\* QueryCompiler.compileSelect returns the object that is (or has just been
\* put) in the cache: <<index>> names the cache entry the result is
ReturnCompiled(index) == <<index>>

\* what a call of compileSelect leaves: its result, the cache afterwards, and
\* the cache entry the returned object is
Outcome(result, cache, alias) == [result |-> result, cache |-> cache, alias |-> alias]
Threw(r, entries) == Outcome([ok |-> FALSE, code |-> r.code], entries, <<>>)

\* compileSelect lines 69-75: the grammar has run; an exception leaves the
\* cache alone, a compiled query is stored and returned
StoreCompiled(entries, components, softDelete, key, compiled) ==
  IF ~compiled.ok THEN Threw(compiled, entries)
  ELSE Outcome(compiled,
               Append(entries,
                      [key |-> key, sql |-> compiled.value.sql,
                       bindings |-> compiled.value.bindings,
                       components |-> components, softDelete |-> softDelete]),
               ReturnCompiled(Len(entries) + 1))

\* compileSelect lines 45-75, from the result of the cache lookup
AfterLookup(entries, components, softDelete, sc, ssd, key, hit) ==
  IF hit # 0
  THEN Outcome(Piece(entries[hit].sql, entries[hit].bindings), entries,
               ReturnCompiled(hit))
  ELSE StoreCompiled(entries, components, softDelete, key,
         GrammarCompileSelect([sc EXCEPT !.wheres = WithSoftDelete(sc.wheres, ssd)]))

\* compileSelect lines 44-45, from the sanitized arguments
LookupKey(entries, components, softDelete, sc, ssd, key) ==
  AfterLookup(entries, components, softDelete, sc, ssd, key, CacheIndex(entries, key))

\* compileSelect from line 44 on, given what the two sanitize calls did
AfterSanitize(entries, components, softDelete, sc, ssd) ==
  IF ~sc.ok THEN Threw(sc, entries)
  ELSE IF ~ssd.ok THEN Threw(ssd, entries)
  ELSE LookupKey(entries, components, softDelete, sc.value, ssd.value,
                 getCacheKey(sc.value, ssd.value))

\* QueryCompiler.compileSelect(components, softDelete) on the cache `entries`
CompilerSelect(entries, components, softDelete) ==
  AfterSanitize(entries, components, softDelete,
                sanitizeComponents(components), sanitizeSoftDelete(softDelete))

(***************************************************************************)
(* The query states the compiler is called with                            *)
(***************************************************************************)
Users == <<"u","s","e","r","s">>
Posts == <<"p","o","s","t","s">>
Age == <<"a","g","e">>
IdColumn == <<"i","d">>
DeletedAt == <<"d","e","l","e","t","e","d","_","a","t">>
PostsUserId == Posts \o <<".">> \o <<"u","i","d">>
\* identifiers the sanitizer rejects
BadDash == <<"a","-","b">>
QuotedInjection == <<"\"","x","\"",";","?">>

Where(type, column, operator, value, values, boolean, not, sql) ==
  [type |-> type, column |-> column, operator |-> operator, value |-> value,
   values |-> values, boolean |-> boolean, not |-> not, sql |-> sql]

RawBalanced == <<"a","g","e"," ","<"," ","?">>
RawUnbalanced == <<"i","d"," ","="," ","?"," ","O","R"," ","?">>

BasicClause == Where("basic", Age, ">", Num(18), <<>>, "AND", FALSE, <<>>)
BadColumnClause == Where("basic", BadDash, "=", Num(1), <<>>, "AND", FALSE, <<>>)
InClause == Where("in", IdColumn, "=", Undefined, <<Num(1), Num(2)>>, "OR", FALSE, <<>>)
BetweenClause == Where("between", Age, "=", Undefined, <<Num(1), Num(5)>>, "AND", TRUE, <<>>)
NullClause == Where("null", IdColumn, "=", Undefined, <<>>, "OR", TRUE, <<>>)
ExistsClause == Where("exists", <<>>, "=", Undefined, <<>>, "AND", FALSE, <<>>)
RawClause == Where("raw", <<>>, "=", Undefined, <<Num(7)>>, "AND", FALSE, RawBalanced)
RawUnbalancedClause == Where("raw", <<>>, "=", Undefined, <<Num(7)>>, "OR", FALSE, RawUnbalanced)

ClauseChoices ==
  {BasicClause, BadColumnClause, InClause, BetweenClause, RawClause, RawUnbalancedClause}

\* how many WHERE clauses a caller adds
MaxWheres == 2

RECURSIVE ListsUpTo(_, _)
ListsUpTo(S, n) ==
  IF n = 0 THEN {<<>>}
  ELSE ListsUpTo(S, n - 1) \cup
       {Append(l, x) : l \in {m \in ListsUpTo(S, n - 1) : Len(m) = n - 1}, x \in S}

Components(table, columns, wheres, joins, orders, limit, offset, distinct) ==
  [table |-> table, columns |-> columns, wheres |-> wheres, joins |-> joins,
   orders |-> orders, limit |-> limit, offset |-> offset, distinct |-> distinct]

PlainSelect == Components(Users, <<>>, <<>>, <<>>, <<>>, Undefined, Undefined, FALSE)

SoftDelete(column, includeTrashed, onlyTrashed) ==
  [present |-> TRUE, column |-> column, includeTrashed |-> includeTrashed,
   onlyTrashed |-> onlyTrashed]

\* no config; the three policies of Builder (default, withTrashed,
\* onlyTrashed); a config without column; a column the sanitizer rejects
SoftDeleteChoices ==
  {NoSoftDelete,
   SoftDelete(DeletedAt, FALSE, FALSE), SoftDelete(DeletedAt, TRUE, FALSE),
   SoftDelete(DeletedAt, TRUE, TRUE), SoftDelete(<<>>, FALSE, FALSE),
   SoftDelete(BadDash, FALSE, FALSE)}

Join(table, first, second) ==
  [type |-> "INNER", table |-> table, first |-> first, operator |-> "=", second |-> second]

\* an operator and a join type outside the vocabularies of types/query.ts
InjectedOperator == "= 1 OR 1 = 1 --"
InjectedJoinType == "INNER JOIN admins; --"

InjectedOperatorClause ==
  Where("basic", Age, InjectedOperator, Num(18), <<>>, "AND", FALSE, <<>>)

TestIdentifiers == {Posts, PostsUserId, BadDash, QuotedInjection, <<>>}
Directions == {"asc", "DESC", "sideways"}

\* query states that differ from PlainSelect in one component
IdentifierQueries ==
  {[PlainSelect EXCEPT !.table = id] : id \in TestIdentifiers}
  \cup {[PlainSelect EXCEPT !.columns = <<IdColumn, id>>, !.distinct = TRUE] :
          id \in TestIdentifiers \ {<<>>}}
  \cup {[PlainSelect EXCEPT !.joins = <<Join(Posts, id, PostsUserId)>>] : id \in TestIdentifiers}
  \cup {[PlainSelect EXCEPT !.joins = <<Join(id, PostsUserId, IdColumn)>>] : id \in TestIdentifiers}
  \cup {[PlainSelect EXCEPT !.joins = <<Join(Posts, IdColumn, id)>>] : id \in TestIdentifiers}
  \cup {[PlainSelect EXCEPT !.orders = <<[column |-> id, direction |-> d]>>] :
          id \in {Age, BadDash}, d \in Directions}
  \cup {[PlainSelect EXCEPT !.wheres = <<InjectedOperatorClause>>],
         [PlainSelect EXCEPT !.joins =
            <<[Join(Posts, IdColumn, PostsUserId) EXCEPT !.type = InjectedJoinType]>>],
         [PlainSelect EXCEPT !.joins =
            <<[Join(Posts, IdColumn, PostsUserId) EXCEPT !.operator = InjectedOperator]>>]}

BaseQueries ==
  {[components |-> [PlainSelect EXCEPT !.wheres = w], softDelete |-> sd] :
     w \in ListsUpTo(ClauseChoices, MaxWheres), sd \in SoftDeleteChoices}
  \cup {[components |-> c, softDelete |-> NoSoftDelete] : c \in IdentifierQueries}

\* the limit and offset a second query state may differ in
LimitOffsetCases ==
  {<<Undefined, Undefined>>, <<Num(10), Undefined>>, <<Num(-1), Undefined>>,
   <<NaN, Undefined>>, <<Num(LIMIT_CEILING + 1), Undefined>>,
   <<Undefined, Num(5)>>, <<Undefined, Num(-1)>>, <<Undefined, NaN>>,
   <<Num(10), Fraction>>}

Variants(q) ==
  {[q EXCEPT !.components.limit = lo[1], !.components.offset = lo[2]] :
     lo \in LimitOffsetCases}

\* how many times a caller changes a bindings array it was handed
MaxMutations == 1

CompIdle ==
  /\ compQueries = <<>>
  /\ compCache = <<>>
  /\ compLast = <<>>
  /\ compMutations = 0

InitCompiler ==
  /\ \E q \in BaseQueries : \E v \in Variants(q) : compQueries = <<q, v>>
  /\ compCache = <<>>
  /\ compLast = <<>>
  /\ compMutations = 0

\* what a call of compileSelect leaves in the compiler and with its caller
Returned(i, out) ==
  /\ compCache' = out.cache
  /\ compLast' = <<[input |-> i, result |-> out.result, alias |-> out.alias,
                    mutated |-> FALSE]>>
  /\ UNCHANGED <<compQueries, compMutations>>

\* a caller calls compileSelect with query state i
CompileSelect(i) ==
  Returned(i, CompilerSelect(compCache, compQueries[i].components,
                             compQueries[i].softDelete))

\* the value a caller pushes onto a bindings array
Pushed == Num(99)

\* the caller of the last compileSelect does result.bindings.push(...); the
\* array is the cached one when the result is the cached object
MutateBindings ==
  /\ compLast # <<>>
  /\ compLast[1].result.ok
  /\ compMutations < MaxMutations
  /\ compMutations' = compMutations + 1
  /\ compLast' = <<[compLast[1] EXCEPT
                      !.result.value.bindings = Append(@, Pushed),
                      !.mutated = TRUE]>>
  /\ compCache' = IF compLast[1].alias = <<>> THEN compCache
                  ELSE [compCache EXCEPT
                          ![compLast[1].alias[1]].bindings = Append(@, Pushed)]
  /\ UNCHANGED compQueries

(***************************************************************************)
(* The grammar called directly, as ModelPersister and Builder.toSql do     *)
(***************************************************************************)
ValueEntry(column, value) == [column |-> column, value |-> value]

\* the `values` objects a caller passes, as their entries in key order
ValueChoices ==
  {<<>>, <<ValueEntry(Age, Num(1))>>,
   <<ValueEntry(IdColumn, Num(1)), ValueEntry(Age, Null)>>,
   <<ValueEntry(BadDash, Num(1))>>,
   <<ValueEntry(Age, Num(1)), ValueEntry(QuotedInjection, Num(2))>>}

GrammarTables == {Users, BadDash, QuotedInjection}

GramIdle == gramInput = <<>> /\ gramResult = <<>>

InitGrammar ==
  /\ \E t \in GrammarTables, v \in ValueChoices :
       \E w \in ListsUpTo(ClauseChoices \cup {NullClause, ExistsClause}, MaxWheres) :
         gramInput = [table |-> t, values |-> v, wheres |-> w]
  /\ gramResult = <<>>

Called(op, result) ==
  /\ gramResult = <<>>
  /\ gramResult' = <<[op |-> op, result |-> result]>>
  /\ UNCHANGED gramInput

\* grammar.compileSelect({table, wheres}), as Builder.toSql calls it
GrammarSelect ==
  Called("select", GrammarCompileSelect([PlainSelect EXCEPT !.table = gramInput.table,
                                                           !.wheres = gramInput.wheres]))

\* grammar.compileInsert(table, values), as ModelPersister.insert calls it
GrammarInsert == Called("insert", compileInsert(gramInput.table, gramInput.values))

\* grammar.compileUpdate(table, values, wheres), as ModelPersister.update calls it
GrammarUpdate ==
  Called("update", compileUpdate(gramInput.table, gramInput.values, gramInput.wheres))

\* grammar.compileDelete(table, wheres), as ModelPersister.delete calls it
GrammarDelete == Called("delete", compileDelete(gramInput.table, gramInput.wheres))

(***************************************************************************)
(* RelationLoader with HasMany, HasOne and BelongsToMany.  A model instance *)
(* is [table, id]; its local key is its id, and the foreign key of a       *)
(* related row is read from the row's table.  A relation path              *)
(* "posts.comments" is <<"posts","comments">>.  The value of a relation is *)
(* a list of instances; for a hasOne relation the list <<>> stands for     *)
(* null and <<instance>> for the model assigned.                           *)
(***************************************************************************)
\* most rows a related table holds
MaxRows == 2

\* local-key values of the parent models
Keys == {1, 2}

Instance(table, id) == [table |-> table, id |-> id]

\* the hasMany relation methods the model classes define
HasManyRelations ==
  {[on |-> "users", name |-> "posts", related |-> "posts"],
   [on |-> "users", name |-> "notes", related |-> "notes"],
   [on |-> "posts", name |-> "comments", related |-> "comments"]}

\* the hasOne relation methods
HasOneRelations ==
  {[on |-> "users", name |-> "profile", related |-> "profiles"]}

\* the belongsToMany relation methods; the pivot table is role_user
BelongsToManyRelations ==
  {[on |-> "users", name |-> "roles", related |-> "roles"]}

Relations == HasManyRelations \cup HasOneRelations \cup BelongsToManyRelations

\* typeof first[relationName] === 'function'
RelationExists(table, name) ==
  \E rel \in Relations : rel.on = table /\ rel.name = name

RelatedTable(table, name) ==
  (CHOOSE rel \in Relations : rel.on = table /\ rel.name = name).related

\* which relation class the relation method returns
KindOf(table, name) ==
  IF \E rel \in HasOneRelations : rel.on = table /\ rel.name = name THEN "hasOne"
  ELSE IF \E rel \in BelongsToManyRelations : rel.on = table /\ rel.name = name
  THEN "belongsToMany"
  ELSE "hasMany"

\* a table whose k-th row has id k and the k-th foreign key of fks
TableOf(table, fks) ==
  [k \in 1..Len(fks) |-> [table |-> table, id |-> k, fk |-> fks[k]]]

\* result.getAttribute(this.foreignKey)
ForeignKeyOf(instance) == loadTables[instance.table][instance.id].fk

\* model.getAttribute(this.localKey)
LocalKeyOf(instance) == instance.id

\* this.query().whereInColumn(this.foreignKey, ids).get(): the rows whose
\* foreign key is one of ids, hydrated, in the order of the table
QueryWhereIn(table, ids) ==
  [k \in 1..Len(SelectSeq(loadTables[table], LAMBDA row : row.fk \in SeqToSet(ids))) |->
     Instance(table,
              SelectSeq(loadTables[table], LAMBDA row : row.fk \in SeqToSet(ids))[k].id)]

\* Mutant of GroupKey: results are grouped by their own key
GroupKeyById(result) == LocalKeyOf(result)

\* HasMany.eagerLoadForMany: const fk = result.getAttribute(this.foreignKey)
GroupKey(result) == ForeignKeyOf(result)

\* grouped.get(key) || []
GetOrEmpty(grouped, key) == IF key \in DOMAIN grouped THEN grouped[key] ELSE <<>>

\* HasMany.eagerLoadForMany, the grouping loop over results, from `grouped`
RECURSIVE GroupResults(_, _)
GroupResults(results, grouped) ==
  IF results = <<>> THEN grouped
  ELSE GroupResults(Tail(results),
         [key \in DOMAIN grouped \cup {GroupKey(Head(results))} |->
            IF key = GroupKey(Head(results))
            THEN Append(GetOrEmpty(grouped, key), Head(results))
            ELSE grouped[key]])

EmptyMap == [key \in {} |-> <<>>]

\* HasMany.eagerLoadForMany, the assignment loop: the value setRelation is
\* called with for each model, in the order of models
AssignedValues(models, grouped) ==
  [i \in 1..Len(models) |-> GetOrEmpty(grouped, LocalKeyOf(models[i]))]

\* HasOne.eagerLoadForMany in relations/HasOne.ts, its two loops: every
\* result is put in the map under its foreign key, a later one replacing an
\* earlier one, and each model gets resultMap.get(id) || null.
HasOneValues(models, results) ==
  [i \in 1..Len(models) |->
     IF SelectSeq(results, LAMBDA row : ForeignKeyOf(row) = LocalKeyOf(models[i])) = <<>>
     THEN <<>>
     ELSE <<SelectSeq(results, LAMBDA row : ForeignKeyOf(row) = LocalKeyOf(models[i]))
              [Len(SelectSeq(results, LAMBDA row : ForeignKeyOf(row) = LocalKeyOf(models[i])))]>>]

\* HasOne.eagerLoadForMany in its other copy: a result is put in the map
\* only if (!grouped.has(fk)), so the earliest one stays.
HasOneValuesFirst(models, results) ==
  [i \in 1..Len(models) |->
     IF SelectSeq(results, LAMBDA row : ForeignKeyOf(row) = LocalKeyOf(models[i])) = <<>>
     THEN <<>>
     ELSE <<Head(SelectSeq(results, LAMBDA row : ForeignKeyOf(row) = LocalKeyOf(models[i])))>>]

\* the two copies of HasOne.eagerLoadForMany the repository holds
HasOneCopies(models, results) ==
  {HasOneValues(models, results), HasOneValuesFirst(models, results)}

PivotRow(parent, related) == [parent |-> parent, related |-> related]

\* The related ids of a parent's pivot rows, in table order
RelatedOf(rows, parent) ==
  [i \in 1..Len(SelectSeq(rows, LAMBDA row : row.parent = parent)) |->
     SelectSeq(rows, LAMBDA row : row.parent = parent)[i].related]

\* the pivot query of queryRelatedForParents and of getPivotMap:
\* whereInColumn(foreignPivotKey, parentIds), in table order
PivotWhereIn(parentIds) ==
  SelectSeq(loadTables.role_user, LAMBDA row : row.parent \in SeqToSet(parentIds))

\* queryRelatedForParents: the related ids of the pivot rows
PivotRelatedIds(parentIds) ==
  [k \in 1..Len(PivotWhereIn(parentIds)) |-> PivotWhereIn(parentIds)[k].related]

\* queryRelatedForParents: no second query when there is no related id, else
\* whereInColumn(relatedKey, relatedIds) on the related table
queryRelatedForParents(table, parentIds) ==
  IF PivotRelatedIds(parentIds) = <<>> THEN <<>>
  ELSE [k \in 1..Len(SelectSeq(loadTables[table],
                        LAMBDA row : row.id \in SeqToSet(PivotRelatedIds(parentIds)))) |->
          Instance(table, SelectSeq(loadTables[table],
                        LAMBDA row : row.id \in SeqToSet(PivotRelatedIds(parentIds)))[k].id)]

\* getPivotMap(parentIds).get(id) || []
getPivotMap(parentIds, id) == RelatedOf(PivotWhereIn(parentIds), id)

\* Mutant of ReplayPivot: every related model found, for every parent
ReplayAll(related, relatedIds) == related

\* relatedIds.map((id) => relatedMap.get(id)).filter(Boolean)
ReplayPivot(related, relatedIds) ==
  [k \in 1..Len(SelectSeq(relatedIds, LAMBDA id : \E m \in SeqToSet(related) : m.id = id)) |->
     CHOOSE m \in SeqToSet(related) :
       m.id = SelectSeq(relatedIds, LAMBDA id : \E x \in SeqToSet(related) : x.id = id)[k]]

\* BelongsToMany.eagerLoadForMany: the value set on each model
BelongsToManyValues(models, related, parentIds) ==
  [i \in 1..Len(models) |->
     ReplayPivot(related, getPivotMap(parentIds, LocalKeyOf(models[i])))]

\* model.relations after setRelation(name, values[i]) on every models[i]
SetRelations(relations, models, name, values) ==
  [slot \in DOMAIN relations \cup {<<models[i], name>> : i \in 1..Len(models)} |->
     IF \E i \in 1..Len(models) : slot = <<models[i], name>>
     THEN values[CHOOSE i \in 1..Len(models) :
                   /\ slot = <<models[i], name>>
                   /\ \A j \in (i + 1)..Len(models) : slot # <<models[j], name>>]
     ELSE relations[slot]]

\* model.getRelation(name) as collectRelatedModels reads it: the items of an
\* array value, nothing when the relation is not set
RelatedItems(instance, name) ==
  IF <<instance, name>> \in DOMAIN loadRel THEN loadRel[<<instance, name>>] ELSE <<>>

\* RelationLoader.collectRelatedModels
RECURSIVE collectRelatedModels(_, _)
collectRelatedModels(models, relationName) ==
  IF models = <<>> THEN <<>>
  ELSE RelatedItems(Head(models), relationName)
         \o collectRelatedModels(Tail(models), relationName)

\* Mutant of TreeKeys: one key per listed path, shared prefixes not merged
TreeKeysUnmerged(relations, seen) == [k \in 1..Len(relations) |-> Head(relations[k])]

\* the keys of the tree buildRelationTree makes of these paths, in insertion order
RECURSIVE TreeKeys(_, _)
TreeKeys(relations, seen) ==
  IF relations = <<>> THEN <<>>
  ELSE IF Head(Head(relations)) \in seen THEN TreeKeys(Tail(relations), seen)
  ELSE <<Head(Head(relations))>>
         \o TreeKeys(Tail(relations), seen \cup {Head(Head(relations))})

\* the subtree under key, as the paths that built it
Subtree(relations, key) ==
  [k \in 1..Len(SelectSeq(relations, LAMBDA r : Head(r) = key /\ Len(r) > 1)) |->
     Tail(SelectSeq(relations, LAMBDA r : Head(r) = key /\ Len(r) > 1)[k])]

RECURSIVE Concat(_)
Concat(lists) == IF lists = <<>> THEN <<>> ELSE Head(lists) \o Concat(Tail(lists))

\* RelationLoader.flattenRelationTree of the tree built from these paths
RECURSIVE flattenRelationTree(_)
flattenRelationTree(tree) ==
  Concat([k \in 1..Len(TreeKeys(tree, {})) |->
            IF Subtree(tree, TreeKeys(tree, {})[k]) = <<>>
            THEN << <<TreeKeys(tree, {})[k]>> >>
            ELSE [n \in 1..Len(flattenRelationTree(Subtree(tree, TreeKeys(tree, {})[k]))) |->
                    <<TreeKeys(tree, {})[k]>>
                      \o flattenRelationTree(Subtree(tree, TreeKeys(tree, {})[k]))[n]]])

\* Object.entries(buildRelationTree(relations)): each relation name with the
\* subtree below it
buildRelationTree(relations) ==
  [k \in 1..Len(TreeKeys(relations, {})) |->
     [name |-> TreeKeys(relations, {})[k],
      nested |-> Subtree(relations, TreeKeys(relations, {})[k])]]

\* a call of load(models, relations) under the tree node `path`
Frame(models, relations, path) ==
  [models |-> models, relations |-> relations,
   todo |-> buildRelationTree(relations), path |-> path, phase |-> "next"]

PostsPath == <<"posts">>
CommentsPath == <<"posts", "comments">>
NotesPath == <<"notes">>
BogusPath == <<"bogus">>
NestedBogusPath == <<"posts", "bogus">>
ProfilePath == <<"profile">>
RolesPath == <<"roles">>

\* the relation lists load() is called with
RelationLists ==
  {<<PostsPath>>, <<CommentsPath>>, <<PostsPath, CommentsPath>>,
   <<NotesPath, CommentsPath>>, <<CommentsPath, NotesPath, PostsPath>>,
   <<PostsPath, BogusPath>>, <<NestedBogusPath>>}

\* the lists that load a hasOne relation only, and those that load a
\* belongsToMany relation
HasOneLists == {<<ProfilePath>>}

BelongsToManyLists == {<<RolesPath>>, <<RolesPath, ProfilePath>>}

\* the roles table: two roles, with ids 1 and 2
Roles == TableOf("roles", <<0, 0>>)

\* the pivot rows there can be; the related id Len(Roles) + 1 has no role
PivotPairs == {PivotRow(p, r) : p \in Keys, r \in 1..(Len(Roles) + 1)}

\* the tables a load over these relations runs against
Tables(posts, comments, profiles, pivot) ==
  [posts |-> TableOf("posts", posts),
   comments |-> TableOf("comments", comments),
   notes |-> TableOf("notes", <<1>>),
   profiles |-> TableOf("profiles", profiles),
   roles |-> Roles,
   role_user |-> pivot]

TablesFor(relations) ==
  IF relations \in HasOneLists
  THEN {Tables(<<>>, <<>>, profiles, <<>>) : profiles \in ListsUpTo(Keys, MaxRows)}
  ELSE IF relations \in BelongsToManyLists
  THEN {Tables(<<>>, <<>>, <<1, 1>>, pivot) : pivot \in ListsUpTo(PivotPairs, MaxRows)}
  ELSE {Tables(posts, comments, <<>>, <<>>) :
          posts \in ListsUpTo(Keys, MaxRows),
          comments \in ListsUpTo(1..MaxRows, MaxRows)}

\* the parent models load() is called with, by local key
ParentLists ==
  {<<Instance("users", a)>> : a \in Keys}
  \cup {<<Instance("users", a), Instance("users", b)>> : a \in Keys, b \in Keys}

LoadIdle ==
  /\ loadTables = <<>>
  /\ loadStack = <<>>
  /\ loadRel = <<>>
  /\ loadLog = <<>>
  /\ loadError = <<>>

\* RelationLoader.load(models, relations) has been called with a non-empty
\* list of models and a non-empty list of relations
InitLoader ==
  /\ \E models \in ParentLists,
        relations \in RelationLists \cup HasOneLists \cup BelongsToManyLists :
       /\ loadStack = <<Frame(models, relations, <<>>)>>
       /\ loadTables \in TablesFor(relations)
  /\ loadRel = EmptyMap
  /\ loadLog = <<>>
  /\ loadError = <<>>

\* the innermost load() call and the tree entry its loop is at
Top == loadStack[Len(loadStack)]
Entry == Head(Top.todo)
NodePath == Top.path \o <<Entry.name>>

SetPhase(phase) ==
  loadStack' = [loadStack EXCEPT ![Len(loadStack)].phase = phase]

\* the loop of the innermost call moves on to its next entry
NextEntry(stack) ==
  [stack EXCEPT ![Len(stack)].todo = Tail(@), ![Len(stack)].phase = "next"]

\* models.map((model) => model.getAttribute(this.localKey))
ParentIds == [i \in 1..Len(Top.models) |-> LocalKeyOf(Top.models[i])]

\* one query of the eagerLoadForMany call at this tree node
QueryEvent ==
  [kind |-> "query", path |-> NodePath, models |-> Top.models, ids |-> ParentIds]

\* Mutant of Awaited: load() goes on without awaiting eagerLoadForMany
NotAwaited(frame) == frame.phase \in {"awaiting", "loaded"}

\* `await relation.eagerLoadForMany(models, relationName)` has returned
Awaited(frame) == frame.phase = "loaded"

\* load(): the relation method exists; eagerLoadForMany collects the ids and
\* issues its query
LoadIssue ==
  /\ loadStack # <<>>
  /\ Top.phase = "next"
  /\ Top.todo # <<>>
  /\ RelationExists(Top.models[1].table, Entry.name)
  /\ SetPhase("awaiting")
  /\ loadLog' = Append(loadLog, QueryEvent)
  /\ UNCHANGED <<loadTables, loadRel, loadError>>

\* new Error(`Relation ${relationName} does not exist on ${name}`): an Error
\* object has a name and a message; it has no code and no context property
\* (<<>> stands for the missing property).
RelationMissingError(relationName, className) ==
  [name |-> "Error",
   message |-> <<"Relation ", relationName, " does not exist on ", className>>,
   code |-> <<>>,
   context |-> <<>>]

\* load(): the relation method does not exist on the first model; the error
\* ends every enclosing load() call
LoadThrow ==
  /\ loadStack # <<>>
  /\ Top.phase = "next"
  /\ Top.todo # <<>>
  /\ ~RelationExists(Top.models[1].table, Entry.name)
  /\ loadStack' = <<>>
  /\ loadError' = <<RelationMissingError(Entry.name, Top.models[1].table)>>
  /\ UNCHANGED <<loadTables, loadRel, loadLog>>

\* what eagerLoadForMany does once its queries have resolved with `results`;
\* `queries` are the queries it issued after its first one
Assign(results, values, queries) ==
  /\ loadRel' = SetRelations(loadRel, Top.models, Entry.name, values)
  /\ loadLog' = Append(loadLog \o queries,
       [kind |-> "assigned", path |-> NodePath, models |-> Top.models,
        results |-> results, values |-> values])

\* HasMany.eagerLoadForMany: the query resolves; results are grouped and
\* every model gets its group
LoadResolve ==
  /\ loadStack # <<>>
  /\ Top.phase = "awaiting"
  /\ KindOf(Top.models[1].table, Entry.name) = "hasMany"
  /\ Assign(QueryWhereIn(RelatedTable(Top.models[1].table, Entry.name), ParentIds),
            AssignedValues(Top.models,
              GroupResults(
                QueryWhereIn(RelatedTable(Top.models[1].table, Entry.name), ParentIds),
                EmptyMap)),
            <<>>)
  /\ SetPhase("loaded")
  /\ UNCHANGED <<loadTables, loadError>>

\* HasOne.eagerLoadForMany: the query resolves; every model gets one result
\* or null, as the copy of the class in use computes it
LoadResolveOne ==
  /\ loadStack # <<>>
  /\ Top.phase = "awaiting"
  /\ KindOf(Top.models[1].table, Entry.name) = "hasOne"
  /\ \E values \in HasOneCopies(Top.models,
         QueryWhereIn(RelatedTable(Top.models[1].table, Entry.name), ParentIds)) :
       Assign(QueryWhereIn(RelatedTable(Top.models[1].table, Entry.name), ParentIds),
              values, <<>>)
  /\ SetPhase("loaded")
  /\ UNCHANGED <<loadTables, loadError>>

\* BelongsToMany.eagerLoadForMany: the pivot query of queryRelatedForParents
\* resolves, then its query of the related table if there is a related id,
\* then the pivot query of getPivotMap; every model gets the related models
\* its pivot rows name.  No table changes between the queries.
LoadResolvePivot ==
  /\ loadStack # <<>>
  /\ Top.phase = "awaiting"
  /\ KindOf(Top.models[1].table, Entry.name) = "belongsToMany"
  /\ Assign(queryRelatedForParents(RelatedTable(Top.models[1].table, Entry.name), ParentIds),
            BelongsToManyValues(Top.models,
              queryRelatedForParents(RelatedTable(Top.models[1].table, Entry.name), ParentIds),
              ParentIds),
            IF PivotRelatedIds(ParentIds) = <<>> THEN <<QueryEvent>>
            ELSE <<QueryEvent, QueryEvent>>)
  /\ SetPhase("loaded")
  /\ UNCHANGED <<loadTables, loadError>>

\* the nested call load(relatedModels, flattenRelationTree(nested))
NestedCall(related) ==
  [kind |-> "load", path |-> NodePath, models |-> related]

\* load(): the entry has a subtree and related models were collected; the
\* nested load() call starts
LoadNested ==
  /\ loadStack # <<>>
  /\ Awaited(Top)
  /\ Entry.nested # <<>>
  /\ collectRelatedModels(Top.models, Entry.name) # <<>>
  /\ loadStack' = Append([loadStack EXCEPT ![Len(loadStack)].phase = "nested"],
                         Frame(collectRelatedModels(Top.models, Entry.name),
                               flattenRelationTree(Entry.nested), NodePath))
  /\ loadLog' = Append(loadLog, NestedCall(collectRelatedModels(Top.models, Entry.name)))
  /\ UNCHANGED <<loadTables, loadRel, loadError>>

\* load(): the entry has no subtree, or the nested load() call returns at
\* once because no related model was collected; the loop moves on
LoadAdvance ==
  /\ loadStack # <<>>
  /\ Awaited(Top)
  /\ \/ Entry.nested = <<>>
     \/ collectRelatedModels(Top.models, Entry.name) = <<>>
  /\ loadStack' = NextEntry(loadStack)
  /\ loadLog' = IF Entry.nested = <<>> THEN loadLog
                ELSE Append(loadLog, NestedCall(<<>>))
  /\ UNCHANGED <<loadTables, loadRel, loadError>>

\* load(): the loop is over; the call returns to the load() that awaits it
LoadReturn ==
  /\ loadStack # <<>>
  /\ Top.phase = "next"
  /\ Top.todo = <<>>
  /\ loadStack' = IF Len(loadStack) = 1 THEN <<>>
                  ELSE NextEntry(SubSeq(loadStack, 1, Len(loadStack) - 1))
  /\ UNCHANGED <<loadTables, loadRel, loadLog, loadError>>

(***************************************************************************)
(* BelongsToMany: attach, detach and sync on the pivot table.  A pivot row *)
(* is [parent, related]: the values of its foreignPivotKey and             *)
(* relatedPivotKey columns.  Each statement sent to the database is one    *)
(* step; sync() holds no transaction around its statements.                *)
(***************************************************************************)
PivotParents == {1, 2}

RelatedIds == {5, 6, 7}

\* The DELETE of detach(ids): ids is <<>> when the argument is undefined,
\* <<list>> when a list was passed.
detach(rows, parent, ids) ==
  IF ids = <<>>
  THEN SelectSeq(rows, LAMBDA row : row.parent # parent)
  ELSE SelectSeq(rows, LAMBDA row :
         ~(row.parent = parent /\ row.related \in SeqToSet(ids[1])))

\* Mutant of SyncDetach: sync passing its ids on to detach
SyncDetachListed(rows, parent, ids) == detach(rows, parent, <<ids>>)

\* sync(ids), first statement: await this.detach()
SyncDetach(rows, parent, ids) == detach(rows, parent, <<>>)

\* attach(ids), one turn of its loop: the INSERT of one pivot row
attach(rows, parent, relatedId) == Append(rows, PivotRow(parent, relatedId))

\* The pivot rows of every other parent
RowsOfOthers(rows, parent) == SelectSeq(rows, LAMBDA row : row.parent # parent)

PivotIdle == pivotRows = <<>> /\ syncCall = <<>>

InitPivot ==
  /\ pivotRows \in ListsUpTo({PivotRow(p, r) : p \in PivotParents, r \in RelatedIds},
                             MaxPivotRows)
  /\ syncCall = <<>>

Sync == syncCall[1]

\* sync(ids) is called on a parent: it runs up to its first await, the
\* DELETE of detach() being sent.
SyncStart ==
  /\ syncCall = <<>>
  /\ \E parent \in PivotParents, ids \in ListsUpTo(RelatedIds, MaxSyncIds) :
       syncCall' = <<[parent |-> parent, ids |-> ids, todo |-> ids,
                      phase |-> "detach", before |-> pivotRows]>>
  /\ UNCHANGED pivotRows

\* The DELETE of detach() is executed and sync goes on to attach(ids), which
\* sends its first INSERT, or returns at once for an empty list.
SyncDetached ==
  /\ syncCall # <<>>
  /\ Sync.phase = "detach"
  /\ pivotRows' = SyncDetach(pivotRows, Sync.parent, Sync.ids)
  /\ syncCall' = <<[Sync EXCEPT !.phase = IF Sync.ids = <<>> THEN "done"
                                          ELSE "attach"]>>

\* One INSERT of attach() is executed; the loop sends the next one or ends.
SyncAttached ==
  /\ syncCall # <<>>
  /\ Sync.phase = "attach"
  /\ pivotRows' = attach(pivotRows, Sync.parent, Head(Sync.todo))
  /\ syncCall' = <<[Sync EXCEPT !.todo = Tail(Sync.todo),
                                !.phase = IF Tail(Sync.todo) = <<>> THEN "done"
                                          ELSE "attach"]>>

\* The statement awaited is rejected by the database: the promise of sync()
\* rejects and nothing is undone.
SyncRejected ==
  /\ syncCall # <<>>
  /\ Sync.phase \in {"detach", "attach"}
  /\ syncCall' = <<[Sync EXCEPT !.phase = "failed"]>>
  /\ UNCHANGED pivotRows

(***************************************************************************)
(* Builder: raw WHERE clauses and the opt-in of QueryState.  This is the    *)
(* Builder that keeps its state in a QueryState and implements             *)
(* BuilderContract.  A WHERE clause is modelled by its type; optedIn       *)
(* records whether allowUnsafeRaw() or unsafeWhereRaw() was ever called on *)
(* the builder or on the builder it was cloned from.                       *)
(***************************************************************************)
\* the most clauses a builder's WHERE list gets
MaxBuilderWheres == 2

\* the builder the caller made, and its clone
Builders == {1, 2}

\* new QueryState(): no clause, allowUnsafeRaw = false
NewQueryState == [wheres |-> <<>>, allowUnsafeRaw |-> FALSE, optedIn |-> FALSE]

\* Mutant of RawAllowed: whereRaw without its test
RawAlwaysAllowed(state) == TRUE

\* whereRaw: `if (!this.state.allowUnsafeRaw) throw new QueryException(...)`
RawAllowed(state) == state.allowUnsafeRaw

BldIdle == bldState = <<>> /\ bldLast = <<>>

\* new Builder(table)
InitBuilder ==
  /\ bldState = [b \in {1} |-> NewQueryState]
  /\ bldLast = <<>>

\* where(column, value): a basic clause is pushed
BuilderWhere(b) ==
  /\ b \in DOMAIN bldState
  /\ Len(bldState[b].wheres) < MaxBuilderWheres
  /\ bldState' = [bldState EXCEPT ![b].wheres = Append(@, "basic")]
  /\ UNCHANGED bldLast

\* whereRaw(sql, bindings), and what it leaves of the state it is given
WhereRawOn(b, state) ==
  /\ bldState' = [bldState EXCEPT ![b] =
       IF RawAllowed(state)
       THEN [state EXCEPT !.wheres = Append(@, "raw")]
       ELSE state]
  /\ bldLast' = <<[builder |-> b,
                   optedIn |-> state.optedIn,
                   threw |-> IF RawAllowed(state) THEN <<>>
                             ELSE <<"UNSAFE_RAW_QUERY">>,
                   before |-> state.wheres,
                   after |-> bldState'[b].wheres]>>

\* the caller calls whereRaw(sql, bindings)
WhereRaw(b) ==
  /\ b \in DOMAIN bldState
  /\ Len(bldState[b].wheres) < MaxBuilderWheres
  /\ WhereRawOn(b, bldState[b])

\* allowUnsafeRaw(): this.state.allowUnsafeRaw = true
AllowUnsafeRaw(b) ==
  /\ b \in DOMAIN bldState
  /\ bldState' = [bldState EXCEPT ![b].allowUnsafeRaw = TRUE, ![b].optedIn = TRUE]
  /\ UNCHANGED bldLast

\* unsafeWhereRaw(sql, bindings): this.allowUnsafeRaw().whereRaw(sql, bindings)
UnsafeWhereRaw(b) ==
  /\ b \in DOMAIN bldState
  /\ Len(bldState[b].wheres) < MaxBuilderWheres
  /\ WhereRawOn(b, [bldState[b] EXCEPT !.allowUnsafeRaw = TRUE, !.optedIn = TRUE])

\* clone(): cloned.state = this.state.clone(), which copies the WHERE list
\* and the flag
CloneBuilder ==
  /\ DOMAIN bldState = {1}
  /\ bldState' = [b \in Builders |-> bldState[1]]
  /\ UNCHANGED bldLast

(***************************************************************************)
(* Database.transaction over SqliteDriver.  Tasks of the program call      *)
(* Database.transaction on the default connection; every await is a point  *)
(* where another task may run, and each driver method runs in one piece.   *)
(* SQLite keeps one transaction per connection with a stack of savepoints; *)
(* a row is [task, n], the n-th row the callback of that task inserted.    *)
(***************************************************************************)
\* the tasks that call Database.transaction
TxTasks == {1, 2}

\* most rows a callback inserts
MaxTxWrites == 2

Snapshot(name, rows) == [name |-> name, rows |-> rows]

\* `sp_${this.savepointLevel}`
SavepointName(level) == <<"sp", level>>

\* the position of the innermost open savepoint of that name, 0 if none
SavepointIndex(saved, name) ==
  IF \E i \in 1..Len(saved) : saved[i].name = name
  THEN CHOOSE i \in 1..Len(saved) :
         /\ saved[i].name = name
         /\ \A j \in (i + 1)..Len(saved) : saved[j].name # name
  ELSE 0

DriverResult(conn, db, threw) == [conn |-> conn, db |-> db, threw |-> threw]

\* SqliteDriver.beginTransaction
beginTransaction(conn, db) ==
  IF conn.transactionActive
  THEN DriverResult([conn EXCEPT !.savepointLevel = @ + 1],
                    [db EXCEPT !.saved =
                       Append(@, Snapshot(SavepointName(conn.savepointLevel + 1), db.rows))],
                    <<>>)
  ELSE IF db.saved # <<>>
  THEN DriverResult(conn, db, <<"TRANSACTION_BEGIN_FAILED">>)
  ELSE DriverResult([conn EXCEPT !.transactionActive = TRUE],
                    [db EXCEPT !.saved = <<Snapshot(<<"begin">>, db.rows)>>],
                    <<>>)

\* SqliteDriver.commit, given the position of the savepoint it names
CommitAt(conn, db, i) ==
  IF ~conn.transactionActive
  THEN DriverResult(conn, db, <<"NO_ACTIVE_TRANSACTION">>)
  ELSE IF conn.savepointLevel > 0
  THEN IF i = 0 THEN DriverResult(conn, db, <<"TRANSACTION_COMMIT_FAILED">>)
       ELSE DriverResult([conn EXCEPT !.savepointLevel = @ - 1],
                         [db EXCEPT !.saved = SubSeq(@, 1, i - 1)], <<>>)
  ELSE IF db.saved = <<>>
  THEN DriverResult(conn, db, <<"TRANSACTION_COMMIT_FAILED">>)
  ELSE DriverResult([conn EXCEPT !.transactionActive = FALSE],
                    [db EXCEPT !.saved = <<>>], <<>>)

\* SqliteDriver.commit
commit(conn, db) ==
  CommitAt(conn, db, SavepointIndex(db.saved, SavepointName(conn.savepointLevel)))

\* SqliteDriver.rollback, given the position of the savepoint it names
RollbackAt(conn, db, i) ==
  IF ~conn.transactionActive
  THEN DriverResult(conn, db, <<"NO_ACTIVE_TRANSACTION">>)
  ELSE IF conn.savepointLevel > 0
  THEN IF i = 0 THEN DriverResult(conn, db, <<"TRANSACTION_ROLLBACK_FAILED">>)
       ELSE DriverResult([conn EXCEPT !.savepointLevel = @ - 1],
                         [rows |-> db.saved[i].rows, saved |-> SubSeq(db.saved, 1, i)],
                         <<>>)
  ELSE IF db.saved = <<>>
  THEN DriverResult(conn, db, <<"TRANSACTION_ROLLBACK_FAILED">>)
  ELSE DriverResult([conn EXCEPT !.transactionActive = FALSE],
                    [rows |-> db.saved[1].rows, saved |-> <<>>], <<>>)

\* SqliteDriver.rollback
rollback(conn, db) ==
  RollbackAt(conn, db, SavepointIndex(db.saved, SavepointName(conn.savepointLevel)))

TxIdle == txConn = <<>> /\ txDb = <<>> /\ txTask = <<>>

\* a connected driver on an empty table, no task has called yet
InitTx ==
  /\ txConn = [transactionActive |-> FALSE, savepointLevel |-> 0]
  /\ txDb = [rows |-> {}, saved |-> <<>>]
  /\ txTask = [t \in TxTasks |-> [pc |-> "idle", writes |-> 0, outcome |-> <<>>]]

\* what a driver call leaves in the driver and the connection
Driven(r) == txConn' = r.conn /\ txDb' = r.db

\* how the task's Database.transaction call ends
Settle(t, phase, outcome) ==
  txTask' = [txTask EXCEPT ![t].pc = phase, ![t].outcome = <<outcome>>]

\* Database.transaction up to `await callback()`
TransactionBegin(t) ==
  /\ txTask[t].pc = "idle"
  /\ Driven(beginTransaction(txConn, txDb))
  /\ IF beginTransaction(txConn, txDb).threw = <<>>
     THEN txTask' = [txTask EXCEPT ![t].pc = "callback"]
     ELSE Settle(t, "threw", beginTransaction(txConn, txDb).threw[1])

\* the callback awaits Database.insert(...)
CallbackInsert(t) ==
  /\ txTask[t].pc = "callback"
  /\ txTask[t].writes < MaxTxWrites
  /\ txDb' = [txDb EXCEPT !.rows = @ \cup {[task |-> t, n |-> txTask[t].writes + 1]}]
  /\ txTask' = [txTask EXCEPT ![t].writes = @ + 1]
  /\ UNCHANGED txConn

\* the catch block of Database.transaction: rollback, then `throw error`
\* unless rollback itself threw
Caught(t, r, error) ==
  /\ Driven(r)
  /\ Settle(t, "threw", IF r.threw = <<>> THEN error ELSE r.threw[1])

\* the callback resolves: commit, and the catch block when commit throws
CallbackResolveWith(t, r) ==
  IF r.threw = <<>>
  THEN Driven(r) /\ Settle(t, "returned", "result")
  ELSE Caught(t, rollback(r.conn, r.db), r.threw[1])

CallbackResolve(t) ==
  /\ txTask[t].pc = "callback"
  /\ CallbackResolveWith(t, commit(txConn, txDb))

\* the callback rejects: the catch block
CallbackReject(t) ==
  /\ txTask[t].pc = "callback"
  /\ Caught(t, rollback(txConn, txDb), "callback error")

(***************************************************************************)
(* LRUCache.  The Map is the list of its entries in insertion order:       *)
(* delete removes an entry, set of an absent key appends one, and          *)
(* keys().next() is the first.  Values are defined values, as the compiled *)
(* queries the cache is made for.                                          *)
(***************************************************************************)
\* this.maxSize
LruMaxSize == 2

LruKeys == 1..(LruMaxSize + 1)
LruValues == {"a", "b"}

LruEntry(key, value) == [key |-> key, value |-> value]

\* this.cache.has(key)
LruHas(entries, key) == \E i \in 1..Len(entries) : entries[i].key = key

\* this.cache.get(key), for a key the Map has
LruValue(entries, key) == (CHOOSE i \in 1..Len(entries) : entries[i].key = key)

\* this.cache.delete(key)
LruDelete(entries, key) == SelectSeq(entries, LAMBDA e : e.key # key)

\* Mutant of get: a hit that leaves the entry where it is
getInPlace(entries, key) == entries

\* LRUCache.get: the Map it leaves
get(entries, key) ==
  IF ~LruHas(entries, key) THEN entries
  ELSE Append(LruDelete(entries, key), entries[LruValue(entries, key)])

\* LRUCache.set: the Map before the eviction test
setAdded(entries, key, value) == Append(LruDelete(entries, key), LruEntry(key, value))

\* LRUCache.set: the Map it leaves
set(entries, key, value) ==
  IF Len(setAdded(entries, key, value)) > LruMaxSize
  THEN Tail(setAdded(entries, key, value))
  ELSE setAdded(entries, key, value)

KeysOf(entries) == {entries[i].key : i \in 1..Len(entries)}

\* the ghost order after key was touched
Touch(order, key) == Append(SelectSeq(order, LAMBDA k : k # key), key)

\* new LRUCache(maxSize)
InitLru == lruCache = <<>> /\ lruTouched = <<>> /\ lruLast = <<>>

\* a cache that is never called
LruIdle == InitLru

\* what a call leaves behind
LruCalled(op, key, entries) ==
  /\ lruCache' = entries
  /\ lruLast' = <<[op |-> op, key |-> key, hit |-> LruHas(lruCache, key),
                   before |-> lruCache, touchedBefore |-> lruTouched]>>

\* a caller calls get(key)
LruGet(key) ==
  /\ LruCalled("get", key, get(lruCache, key))
  /\ lruTouched' = IF LruHas(lruCache, key) THEN Touch(lruTouched, key) ELSE lruTouched

\* a caller calls set(key, value)
LruSet(key, value) ==
  /\ LruCalled("set", key, set(lruCache, key, value))
  /\ lruTouched' = Touch(lruTouched, key)

(***************************************************************************)
(* ConnectionPool                                                          *)
(***************************************************************************)
InitPool ==
  /\ available = <<>>
  /\ inUse = {}
  /\ pending = <<>>
  /\ hasDestroy \in BOOLEAN
  /\ pc = [c \in Callers |-> "idle"]
  /\ held = [c \in Callers |-> <<>>]
  /\ stale = <<>>
  /\ created = 0
  /\ drainQ = <<>>
  /\ destroyed = <<>>
  /\ arrivals = <<>>
  /\ lastServed = <<>>

\* size(): available.length + inUse.size
PoolSize == Len(available) + Cardinality(inUse)

\* acquire(), from the call to its first suspension point or its return.
\* The check of the limit reads size(); a resource under creation is counted
\* by neither this.available nor this.inUse.
AcquireHasRoom == Cardinality(inUse) + Len(available) < PoolMax

AcquireStart(c) ==
  /\ pc[c] = "idle"
  /\ IF Len(available) > 0
     THEN /\ available' = Tail(available)
          /\ inUse' = inUse \cup {Head(available)}
          /\ held' = [held EXCEPT ![c] = <<Head(available)>>]
          /\ pc' = [pc EXCEPT ![c] = "holding"]
          /\ UNCHANGED <<pending, created, arrivals>>
     ELSE IF AcquireHasRoom
     THEN /\ created + Cardinality({x \in Callers : pc[x] = "creating"}) < MaxCreated
          /\ pc' = [pc EXCEPT ![c] = "creating"]
          /\ UNCHANGED <<available, inUse, held, pending, created, arrivals>>
     ELSE /\ pending' = Append(pending, c)
          /\ arrivals' = Append(arrivals, c)
          /\ pc' = [pc EXCEPT ![c] = "waiting"]
          /\ UNCHANGED <<available, inUse, held, created>>
  /\ lastServed' = <<>>
  /\ UNCHANGED <<hasDestroy, stale, drainQ, destroyed>>

\* acquire(), resumed when `await this.create()` settles.
AcquireCreated(c) ==
  /\ pc[c] = "creating"
  /\ created' = created + 1
  /\ inUse' = inUse \cup {created + 1}
  /\ held' = [held EXCEPT ![c] = <<created + 1>>]
  /\ pc' = [pc EXCEPT ![c] = "holding"]
  /\ lastServed' = <<>>
  /\ UNCHANGED <<available, pending, hasDestroy, stale, drainQ, destroyed,
                 arrivals>>

\* Mutant of ShiftWaiter: this.pending.pop(), the newest waiter first
PopWaiter(q) == [next |-> q[Len(q)], rest |-> SubSeq(q, 1, Len(q) - 1)]

\* this.pending.shift(): the resolver taken and the queue left behind
ShiftWaiter(q) == [next |-> Head(q), rest |-> Tail(q)]

\* Mutant of IsInUse: release without its test
AlwaysInUse(r) == TRUE

\* release(): this.inUse.has(resource)
IsInUse(r) == r \in inUse

\* release(resource), called by caller c, who afterwards holds nothing.
ReleaseCall(c, r) ==
  /\ stale' = <<[caller |-> c, resource |-> r, ignored |-> r \notin inUse]>>
  /\ IF ~IsInUse(r)
     THEN /\ held' = [held EXCEPT ![c] = <<>>]
          /\ pc' = [pc EXCEPT ![c] = "idle"]
          /\ lastServed' = <<>>
          /\ UNCHANGED <<available, inUse, pending, arrivals>>
     ELSE IF Len(pending) > 0
     THEN LET w == ShiftWaiter(pending).next IN
          /\ inUse' = (inUse \ {r}) \cup {r}
          /\ pending' = ShiftWaiter(pending).rest
          /\ held' = [[held EXCEPT ![c] = <<>>] EXCEPT ![w] = <<r>>]
          /\ pc' = [[pc EXCEPT ![c] = "idle"] EXCEPT ![w] = "holding"]
          /\ arrivals' = SelectSeq(arrivals, LAMBDA x : x # w)
          /\ lastServed' = <<w>>
          /\ UNCHANGED available
     ELSE /\ inUse' = inUse \ {r}
          /\ available' = Append(available, r)
          /\ held' = [held EXCEPT ![c] = <<>>]
          /\ pc' = [pc EXCEPT ![c] = "idle"]
          /\ lastServed' = <<>>
          /\ UNCHANGED <<pending, arrivals>>
  /\ UNCHANGED <<hasDestroy, created, drainQ, destroyed>>

\* The holder of a resource gives it back.
Release(c) ==
  /\ pc[c] = "holding"
  /\ ReleaseCall(c, held[c][1])

\* The caller of the last release() releases the same resource once more,
\* whoever holds it by now.
ReleaseAgain(c) ==
  /\ pc[c] = "idle"
  /\ stale # <<>>
  /\ stale[1].caller = c
  /\ ReleaseCall(c, stale[1].resource)

\* A caller that holds nothing releases an object the pool never handed out.
ReleaseForeign(c) ==
  /\ pc[c] = "idle"
  /\ ReleaseCall(c, Foreign)

\* Every order in which a Set of resources can be iterated.  The Set keeps
\* its insertion order, which the model does not record.
Orderings(S) ==
  {q \in [1..Cardinality(S) -> S] : \A i, j \in 1..Cardinality(S) : i # j => q[i] # q[j]}

\* Mutant of DrainSnapshot: the idle resources only
SnapshotIdle(order) == available

\* drain(): const resources = [...this.available, ...this.inUse]
DrainSnapshot(order) == available \o order

\* Mutant of ClearPending: drain leaving the waiter queue as it is
KeepPending(q) == q

\* drain(): this.pending = []
ClearPending(q) == <<>>

\* drain(), from the call to its first suspension point: the snapshot and
\* the clearing of the three collections.  A call with a destructor and a
\* non-empty snapshot leaves a loop behind; several calls may overlap.
Drain ==
  /\ PoolSize + Len(pending) > 0
  /\ \E order \in Orderings(inUse) :
       drainQ' = IF hasDestroy /\ DrainSnapshot(order) # <<>>
                 THEN Append(drainQ, DrainSnapshot(order))
                 ELSE drainQ
  /\ available' = <<>>
  /\ inUse' = {}
  /\ pending' = ClearPending(pending)
  /\ arrivals' = <<>>
  /\ lastServed' = <<>>
  /\ UNCHANGED <<hasDestroy, pc, held, stale, created, destroyed>>

\* What is left of the loops once loop i has taken its next resource
AfterDestroy(loops, i) ==
  IF Len(loops[i]) = 1
  THEN SubSeq(loops, 1, i - 1) \o SubSeq(loops, i + 1, Len(loops))
  ELSE [loops EXCEPT ![i] = Tail(loops[i])]

\* drain(), one turn of the loop of one call: await this.destroy(resource)
DrainDestroy ==
  /\ \E i \in 1..Len(drainQ) :
       /\ destroyed' = Append(destroyed, Head(drainQ[i]))
       /\ drainQ' = AfterDestroy(drainQ, i)
  /\ lastServed' = <<>>
  /\ UNCHANGED <<available, inUse, pending, hasDestroy, pc, held, stale,
                 created, arrivals>>

NextPool ==
  \/ \E c \in Callers : AcquireStart(c) /\ UNCHANGED <<sanVars, compVars, gramVars, loadVars, pivotVars, bldVars, valVars, txVars, lruVars>>
  \/ \E c \in Callers : AcquireCreated(c) /\ UNCHANGED <<sanVars, compVars, gramVars, loadVars, pivotVars, bldVars, valVars, txVars, lruVars>>
  \/ \E c \in Callers : Release(c) /\ UNCHANGED <<sanVars, compVars, gramVars, loadVars, pivotVars, bldVars, valVars, txVars, lruVars>>
  \/ \E c \in Callers : ReleaseAgain(c) /\ UNCHANGED <<sanVars, compVars, gramVars, loadVars, pivotVars, bldVars, valVars, txVars, lruVars>>
  \/ \E c \in Callers : ReleaseForeign(c) /\ UNCHANGED <<sanVars, compVars, gramVars, loadVars, pivotVars, bldVars, valVars, txVars, lruVars>>
  \/ Drain /\ UNCHANGED <<sanVars, compVars, gramVars, loadVars, pivotVars, bldVars, valVars, txVars, lruVars>>
  \/ DrainDestroy /\ UNCHANGED <<sanVars, compVars, gramVars, loadVars, pivotVars, bldVars, valVars, txVars, lruVars>>

\* a new pool; the other components are not in use
StartPool == InitPool /\ SanIdle /\ CompIdle /\ GramIdle /\ LoadIdle /\ PivotIdle /\ BldIdle /\ ValIdle /\ TxIdle /\ LruIdle

SpecPool == StartPool /\ [][NextPool]_vars

\* a pool nobody uses, for the specifications of the other components
PoolIdle == InitPool /\ ~hasDestroy

NextSan == SanitizeCall /\ UNCHANGED <<poolVars, compVars, gramVars, loadVars, pivotVars, bldVars, valVars, txVars, lruVars>>

StartSanitizer == PoolIdle /\ CompIdle /\ GramIdle /\ LoadIdle /\ InitSan /\ PivotIdle /\ BldIdle /\ ValIdle /\ TxIdle /\ LruIdle

SpecSanitizer == StartSanitizer /\ [][NextSan]_vars

NextValidator ==
  \/ ValidateLimitCall /\ UNCHANGED <<poolVars, sanVars, compVars, gramVars, loadVars, pivotVars, bldVars, txVars, lruVars>>
  \/ ValidateOffsetCall /\ UNCHANGED <<poolVars, sanVars, compVars, gramVars, loadVars, pivotVars, bldVars, txVars, lruVars>>

StartValidator == PoolIdle /\ SanIdle /\ CompIdle /\ GramIdle /\ LoadIdle /\ PivotIdle /\ BldIdle /\ InitValidator /\ TxIdle /\ LruIdle

SpecValidator == StartValidator /\ [][NextValidator]_vars

NextTx ==
  \/ \E t \in TxTasks : TransactionBegin(t) /\ UNCHANGED <<poolVars, sanVars, compVars, gramVars, loadVars, pivotVars, bldVars, valVars, lruVars>>
  \/ \E t \in TxTasks : CallbackInsert(t) /\ UNCHANGED <<poolVars, sanVars, compVars, gramVars, loadVars, pivotVars, bldVars, valVars, lruVars>>
  \/ \E t \in TxTasks : CallbackResolve(t) /\ UNCHANGED <<poolVars, sanVars, compVars, gramVars, loadVars, pivotVars, bldVars, valVars, lruVars>>
  \/ \E t \in TxTasks : CallbackReject(t) /\ UNCHANGED <<poolVars, sanVars, compVars, gramVars, loadVars, pivotVars, bldVars, valVars, lruVars>>

StartTx == PoolIdle /\ SanIdle /\ CompIdle /\ GramIdle /\ LoadIdle /\ PivotIdle /\ BldIdle /\ ValIdle /\ InitTx /\ LruIdle

SpecTx == StartTx /\ [][NextTx]_vars

NextLru ==
  \/ \E key \in LruKeys : LruGet(key) /\ UNCHANGED <<poolVars, sanVars, compVars, gramVars, loadVars, pivotVars, bldVars, valVars, txVars>>
  \/ \E key \in LruKeys, value \in LruValues : LruSet(key, value) /\ UNCHANGED <<poolVars, sanVars, compVars, gramVars, loadVars, pivotVars, bldVars, valVars, txVars>>

StartLru == PoolIdle /\ SanIdle /\ CompIdle /\ GramIdle /\ LoadIdle /\ PivotIdle /\ BldIdle /\ ValIdle /\ TxIdle /\ InitLru

SpecLru == StartLru /\ [][NextLru]_vars

NextCompiler ==
  \/ \E i \in {1, 2} : CompileSelect(i) /\ UNCHANGED <<poolVars, sanVars, gramVars, loadVars, pivotVars, bldVars, valVars, txVars, lruVars>>
  \/ MutateBindings /\ UNCHANGED <<poolVars, sanVars, gramVars, loadVars, pivotVars, bldVars, valVars, txVars, lruVars>>

StartCompiler == PoolIdle /\ SanIdle /\ GramIdle /\ LoadIdle /\ InitCompiler /\ PivotIdle /\ BldIdle /\ ValIdle /\ TxIdle /\ LruIdle

SpecCompiler == StartCompiler /\ [][NextCompiler]_vars

NextGrammar ==
  \/ GrammarSelect /\ UNCHANGED <<poolVars, sanVars, compVars, loadVars, pivotVars, bldVars, valVars, txVars, lruVars>>
  \/ GrammarInsert /\ UNCHANGED <<poolVars, sanVars, compVars, loadVars, pivotVars, bldVars, valVars, txVars, lruVars>>
  \/ GrammarUpdate /\ UNCHANGED <<poolVars, sanVars, compVars, loadVars, pivotVars, bldVars, valVars, txVars, lruVars>>
  \/ GrammarDelete /\ UNCHANGED <<poolVars, sanVars, compVars, loadVars, pivotVars, bldVars, valVars, txVars, lruVars>>

StartGrammar == PoolIdle /\ SanIdle /\ CompIdle /\ LoadIdle /\ InitGrammar /\ PivotIdle /\ BldIdle /\ ValIdle /\ TxIdle /\ LruIdle

SpecGrammar == StartGrammar /\ [][NextGrammar]_vars

NextLoader ==
  \/ LoadIssue /\ UNCHANGED <<poolVars, sanVars, compVars, gramVars, pivotVars, bldVars, valVars, txVars, lruVars>>
  \/ LoadThrow /\ UNCHANGED <<poolVars, sanVars, compVars, gramVars, pivotVars, bldVars, valVars, txVars, lruVars>>
  \/ LoadResolve /\ UNCHANGED <<poolVars, sanVars, compVars, gramVars, pivotVars, bldVars, valVars, txVars, lruVars>>
  \/ LoadResolveOne /\ UNCHANGED <<poolVars, sanVars, compVars, gramVars, pivotVars, bldVars, valVars, txVars, lruVars>>
  \/ LoadResolvePivot /\ UNCHANGED <<poolVars, sanVars, compVars, gramVars, pivotVars, bldVars, valVars, txVars, lruVars>>
  \/ LoadNested /\ UNCHANGED <<poolVars, sanVars, compVars, gramVars, pivotVars, bldVars, valVars, txVars, lruVars>>
  \/ LoadAdvance /\ UNCHANGED <<poolVars, sanVars, compVars, gramVars, pivotVars, bldVars, valVars, txVars, lruVars>>
  \/ LoadReturn /\ UNCHANGED <<poolVars, sanVars, compVars, gramVars, pivotVars, bldVars, valVars, txVars, lruVars>>

StartLoader == PoolIdle /\ SanIdle /\ CompIdle /\ GramIdle /\ InitLoader /\ PivotIdle /\ BldIdle /\ ValIdle /\ TxIdle /\ LruIdle

SpecLoader == StartLoader /\ [][NextLoader]_vars

NextPivot ==
  \/ SyncStart /\ UNCHANGED <<poolVars, sanVars, compVars, gramVars, loadVars, bldVars, valVars, txVars, lruVars>>
  \/ SyncDetached /\ UNCHANGED <<poolVars, sanVars, compVars, gramVars, loadVars, bldVars, valVars, txVars, lruVars>>
  \/ SyncAttached /\ UNCHANGED <<poolVars, sanVars, compVars, gramVars, loadVars, bldVars, valVars, txVars, lruVars>>
  \/ SyncRejected /\ UNCHANGED <<poolVars, sanVars, compVars, gramVars, loadVars, bldVars, valVars, txVars, lruVars>>

StartPivot == PoolIdle /\ SanIdle /\ CompIdle /\ GramIdle /\ LoadIdle /\ InitPivot /\ BldIdle /\ ValIdle /\ TxIdle /\ LruIdle

SpecPivot == StartPivot /\ [][NextPivot]_vars

NextBuilder ==
  \/ \E b \in Builders : BuilderWhere(b) /\ UNCHANGED <<poolVars, sanVars, compVars, gramVars, loadVars, pivotVars, valVars, txVars, lruVars>>
  \/ \E b \in Builders : WhereRaw(b) /\ UNCHANGED <<poolVars, sanVars, compVars, gramVars, loadVars, pivotVars, valVars, txVars, lruVars>>
  \/ \E b \in Builders : AllowUnsafeRaw(b) /\ UNCHANGED <<poolVars, sanVars, compVars, gramVars, loadVars, pivotVars, valVars, txVars, lruVars>>
  \/ \E b \in Builders : UnsafeWhereRaw(b) /\ UNCHANGED <<poolVars, sanVars, compVars, gramVars, loadVars, pivotVars, valVars, txVars, lruVars>>
  \/ CloneBuilder /\ UNCHANGED <<poolVars, sanVars, compVars, gramVars, loadVars, pivotVars, valVars, txVars, lruVars>>

StartBuilder == PoolIdle /\ SanIdle /\ CompIdle /\ GramIdle /\ LoadIdle /\ PivotIdle /\ InitBuilder /\ ValIdle /\ TxIdle /\ LruIdle

SpecBuilder == StartBuilder /\ [][NextBuilder]_vars

(***************************************************************************)
(* Claims about the ConnectionPool                                         *)
(***************************************************************************)

\* C1: under any interleaving of acquire() and release() calls the number of
\* resources in use at the same time never exceeds max.
C1_InUseWithinMax == Cardinality(inUse) <= PoolMax

\* caller c calls release(r): as the holder of r, or once more after it gave r back
ReleaseStep(c, r) ==
  \/ pc[c] = "holding" /\ held[c] = <<r>> /\ Release(c)
  \/ pc[c] = "idle" /\ stale # <<>> /\ stale[1].caller = c /\ stale[1].resource = r
       /\ ReleaseAgain(c)

\* the suspended acquire() of caller w is completed in this step
Completed(w) == pc[w] = "waiting" /\ pc'[w] # "waiting"

\* C8: a suspended acquire() is completed only by a release() of a resource in
\* use, which completes exactly one waiter: the one whose acquire() was made
\* first among those queued; it receives the released resource itself, and
\* the idle list does not change while a waiter is queued.
C8_WaitersServedFifo ==
  [][ /\ \A w \in Callers : Completed(w) =>
           /\ arrivals # <<>> /\ w = Head(arrivals)
           /\ \E c \in Callers, r \in Resources :
                 /\ ReleaseStep(c, r)
                 /\ r \in inUse
                 /\ held'[w] = <<r>>
                 /\ r \in inUse'
           /\ pc'[w] = "holding"
           /\ available' = available
           /\ \A x \in Callers \ {w} : ~Completed(x)
      /\ \A c \in Callers, r \in Resources :
           (ReleaseStep(c, r) /\ r \in inUse /\ arrivals # <<>>) =>
              /\ \E w \in Callers : Completed(w)
              /\ available' = available
    ]_vars

\* C8 witness: a release() has just completed the oldest waiter while another
\* acquire() is still queued behind it.
C8_Witness == lastServed # <<>> /\ arrivals # <<>>

(***************************************************************************)
(* Claims about the QuerySanitizer                                         *)
(***************************************************************************)
Letters == LowerCase \cup UpperCase

\* a segment the pattern /^[a-zA-Z_][a-zA-Z0-9_]*$/ accepts, or the wildcard
GoodSegment(seg) ==
  \/ seg = <<"*">>
  \/ /\ seg # <<>>
     /\ seg[1] \in Letters \cup {"_"}
     /\ \A i \in 1..Len(seg) : seg[i] \in Letters \cup Digits \cup {"_"}

DotCount(s) == Cardinality({i \in 1..Len(s) : s[i] = "."})

\* the cases the claim lists
ListedCase(s) ==
  \/ s = <<>>
  \/ Len(s) > MAX_IDENTIFIER_LENGTH
  \/ \E i \in 1..Len(s) : s[i] \notin Letters \cup Digits \cup {"_", "."}
  \/ s # <<>> /\ s[1] \in Digits
  \/ DotCount(s) > 1

\* C6 (as stated): in each listed case (empty; longer than 64 characters; a
\* character outside [A-Za-z0-9_] or a leading digit; more than two
\* dot-separated segments) sanitizeIdentifier fails with INVALID_IDENTIFIER.
C6_AlwaysInvalidIdentifier ==
  (sanResult # <<>> /\ ListedCase(sanInput)) =>
     sanResult[1] = Thrown("INVALID_IDENTIFIER")

\* C6 (amended): the identifier is judged after its surrounding whitespace
\* is removed.  Empty: INVALID_IDENTIFIER.  Longer than 64 characters:
\* IDENTIFIER_TOO_LONG.  More than two dot-separated segments:
\* INVALID_QUALIFIED_NAME.  A segment that is neither "*" nor matches
\* [A-Za-z_][A-Za-z0-9_]*: INVALID_IDENTIFIER_PATTERN.  Anything else is
\* returned, trimmed.
C6_FailsWithItsOwnCode ==
  sanResult # <<>> =>
     sanResult[1] =
       IF Trim(sanInput) = <<>> THEN Thrown("INVALID_IDENTIFIER")
       ELSE IF Len(Trim(sanInput)) > MAX_IDENTIFIER_LENGTH
       THEN Thrown("IDENTIFIER_TOO_LONG")
       ELSE IF DotCount(Trim(sanInput)) > 1 THEN Thrown("INVALID_QUALIFIED_NAME")
       ELSE IF \E k \in 1..Len(SplitDots(Trim(sanInput))) :
                 ~GoodSegment(SplitDots(Trim(sanInput))[k])
       THEN Thrown("INVALID_IDENTIFIER_PATTERN")
       ELSE Ok(Trim(sanInput))

\* C6 witness: "users; DROP TABLE x" has been rejected for its characters.
C6_Witness ==
  /\ sanInput = DropTable
  /\ sanResult = <<Thrown("INVALID_IDENTIFIER_PATTERN")>>

(***************************************************************************)
(* Claims about the QueryCompiler                                          *)
(***************************************************************************)
\* what a compiler whose cache is empty returns for this query state
FreshCompile(components, softDelete) ==
  CompilerSelect(<<>>, components, softDelete).result

LastCall == compLast[1]
LastQuery == compQueries[LastCall.input]

\* C2: compiling the same query state twice returns equal (sql, bindings)
\* even when the caller changed the bindings array it got from the first
\* call, and a cached entry keeps the bindings it was compiled with.
C2_CacheHitHandsOutCopy ==
  /\ \A k \in 1..Len(compCache) :
       compCache[k].bindings =
         FreshCompile(compCache[k].components, compCache[k].softDelete).value.bindings
  /\ (/\ compLast # <<>>
      /\ compQueries[1] = compQueries[2]
      /\ LastCall.result.ok
      /\ ~LastCall.mutated)
     => LastCall.result = FreshCompile(LastQuery.components, LastQuery.softDelete)

Rejected(identifier) == ~sanitizeIdentifier(identifier).ok

\* the query state has an identifier the sanitizer rejects, or an invalid
\* direction, limit or offset
InvalidQuery(c) ==
  \/ Rejected(c.table)
  \/ \E i \in 1..Len(c.columns) : Rejected(c.columns[i])
  \/ \E i \in 1..Len(c.joins) :
       Rejected(c.joins[i].table) \/ Rejected(c.joins[i].first)
         \/ Rejected(c.joins[i].second)
  \/ \E i \in 1..Len(c.wheres) :
       c.wheres[i].type \notin {"raw", "exists"} /\ Rejected(c.wheres[i].column)
  \/ \E i \in 1..Len(c.orders) :
       Rejected(c.orders[i].column) \/ ~sanitizeDirection(c.orders[i].direction).ok
  \/ c.limit # Undefined /\ ~validateLimit(c.limit).ok
  \/ c.offset # Undefined /\ ~validateOffset(c.offset).ok

\* C4: compileSelect on a query state with an invalid identifier, direction,
\* limit or offset throws, returns no SQL, and the cache holds no entry made
\* from such a state.
C4_InvalidQueryThrows ==
  /\ (compLast # <<>> /\ InvalidQuery(LastQuery.components)) => ~LastCall.result.ok
  /\ \A k \in 1..Len(compCache) : ~InvalidQuery(compCache[k].components)

\* the text of one IS [NOT] NULL clause on a quoted column
NullClauseText(prefix, column, not) ==
  <<prefix, " ", "\"">> \o column
    \o <<"\"", " ", (IF not THEN "IS NOT NULL" ELSE "IS NULL")>>

\* where the clauses of the WHERE part start
ClauseStarts(sql) == {i \in 1..Len(sql) : sql[i] \in {"WHERE", "AND", "OR"}}

\* the last unit of the WHERE part: ORDER BY, LIMIT and OFFSET follow it
WhereEnd(sql) ==
  IF \E i \in 1..Len(sql) : sql[i] \in {"ORDER BY ", "LIMIT ", "OFFSET "}
  THEN (CHOOSE i \in 1..Len(sql) :
          /\ sql[i] \in {"ORDER BY ", "LIMIT ", "OFFSET "}
          /\ \A j \in 1..(i - 1) : sql[j] \notin {"ORDER BY ", "LIMIT ", "OFFSET "}) - 2
  ELSE Len(sql)

LastClause(sql) ==
  SubSeq(sql, CHOOSE i \in ClauseStarts(sql) : \A j \in ClauseStarts(sql) : j <= i,
         WhereEnd(sql))

\* the SQL has the caller's clauses and then, as its last WHERE clause, the
\* test of the soft-delete column
EndsWithSoftDelete(sql, query, not) ==
  /\ Cardinality(ClauseStarts(sql)) = Len(query.components.wheres) + 1
  /\ LastClause(sql) =
       NullClauseText(IF query.components.wheres = <<>> THEN "WHERE" ELSE "AND",
                      query.softDelete.column, not)

\* C7: for a state with a soft-delete column, the compiled SQL has the
\* caller's WHERE clauses followed by `AND "<column>" IS NULL` as the last
\* clause (WHERE when the caller gave none); with onlyTrashed the clause is
\* IS NOT NULL; with withTrashed the SQL has the caller's clauses only.
C7_SoftDeleteClauseLast ==
  (/\ compLast # <<>>
   /\ LastCall.result.ok
   /\ LastQuery.softDelete.present
   /\ LastQuery.softDelete.column # <<>>)
  => IF LastQuery.softDelete.onlyTrashed
     THEN EndsWithSoftDelete(LastCall.result.value.sql, LastQuery, TRUE)
     ELSE IF ~LastQuery.softDelete.includeTrashed
     THEN EndsWithSoftDelete(LastCall.result.value.sql, LastQuery, FALSE)
     ELSE Cardinality(ClauseStarts(LastCall.result.value.sql))
            = Len(LastQuery.components.wheres)

\* C7 witness: a query with caller clauses and the default soft-delete
\* policy has been compiled.
C7_Witness ==
  /\ compLast # <<>>
  /\ LastCall.result.ok
  /\ LastQuery.softDelete = SoftDelete(DeletedAt, FALSE, FALSE)
  /\ LastQuery.components.wheres # <<>>
  /\ LastClause(LastCall.result.value.sql) = NullClauseText("AND", DeletedAt, FALSE)

(***************************************************************************)
(* Claims about the grammar's compile functions                            *)
(***************************************************************************)
GramCall == gramResult[1]

\* C3: in every query a compile function returns, the number of
\* placeholders in sql equals bindings.length.
C3_PlaceholdersMatchBindings ==
  (gramResult # <<>> /\ GramCall.result.ok) =>
     CountPlaceholders(GramCall.result.value.sql) = Len(GramCall.result.value.bindings)

\* the columns of the WHERE clauses that name one
WhereColumns(wheres) ==
  {wheres[i].column :
     i \in {j \in 1..Len(wheres) : wheres[j].type \notin {"raw", "exists"}}}

\* the identifiers a compile function is given
IdentifiersOf(op, input) ==
  {input.table}
  \cup (IF op \in {"insert", "update"}
        THEN {input.values[i].column : i \in 1..Len(input.values)} ELSE {})
  \cup (IF op \in {"update", "delete"} THEN WhereColumns(input.wheres) ELSE {})

\* C5: compileInsert, compileUpdate and compileDelete throw whenever the
\* table or a column they are given fails the identifier sanitizer.
C5_RejectedIdentifierThrows ==
  (/\ gramResult # <<>>
   /\ GramCall.op \in {"insert", "update", "delete"}
   /\ \E id \in IdentifiersOf(GramCall.op, gramInput) : Rejected(id))
  => ~GramCall.result.ok

(***************************************************************************)
(* Claims about RelationLoader and HasMany                                 *)
(***************************************************************************)
Front(path) == SubSeq(path, 1, Len(path) - 1)

\* the related models a batch assigned, parent by parent
AssignedBy(event) == Concat(event.values)

\* C9: a nested load() call, and every query issued for a nested relation,
\* comes after the batch of the parent relation has assigned its results to
\* all the models of that batch, and runs over exactly the related models
\* that batch assigned.
C9_NestedAfterParentAssigned ==
  \A k \in 1..Len(loadLog) :
     /\ loadLog[k].kind = "load" =>
          \E j \in 1..(k - 1) :
             /\ loadLog[j].kind = "assigned"
             /\ loadLog[j].path = loadLog[k].path
             /\ Len(loadLog[j].values) = Len(loadLog[j].models)
             /\ loadLog[k].models = AssignedBy(loadLog[j])
     /\ (loadLog[k].kind = "query" /\ Len(loadLog[k].path) > 1) =>
          \E j \in 1..(k - 1) :
             /\ loadLog[j].kind = "assigned"
             /\ loadLog[j].path = Front(loadLog[k].path)
             /\ Len(loadLog[j].values) = Len(loadLog[j].models)
             /\ loadLog[k].models = AssignedBy(loadLog[j])

\* C9 witness: the query of posts.comments has been issued over the posts
\* that the posts batch assigned to two parents.
C9_Witness ==
  \E k \in 1..Len(loadLog) :
     /\ loadLog[k].kind = "query"
     /\ loadLog[k].path = CommentsPath
     /\ Len(loadLog[k].models) > 1
     /\ \E j \in 1..(k - 1) :
          /\ loadLog[j].kind = "assigned"
          /\ loadLog[j].path = PostsPath
          /\ Len(loadLog[j].models) > 1

\* the rows of results whose foreign key is key, in result order
Matching(results, key) == SelectSeq(results, LAMBDA row : ForeignKeyOf(row) = key)

\* C10: after eagerLoadForMany every parent's relation is the list of the
\* returned rows whose foreign key equals the parent's local key, in result
\* order; it is the empty list when no row matches.
C10_ParentsGetMatchingRows ==
  \A k \in 1..Len(loadLog) :
     (/\ loadLog[k].kind = "assigned"
      /\ KindOf(loadLog[k].models[1].table, loadLog[k].path[Len(loadLog[k].path)])
           = "hasMany") =>
        \A i \in 1..Len(loadLog[k].models) :
           /\ loadLog[k].values[i] =
                Matching(loadLog[k].results, LocalKeyOf(loadLog[k].models[i]))
           /\ <<loadLog[k].models[i], loadLog[k].path[Len(loadLog[k].path)]>>
                \in DOMAIN loadRel
           /\ loadRel[<<loadLog[k].models[i], loadLog[k].path[Len(loadLog[k].path)]>>]
                = loadLog[k].values[i]

\* C10 witness: one batch gave a parent several rows and another parent the
\* empty list.
C10_Witness ==
  \E k \in 1..Len(loadLog) :
     /\ loadLog[k].kind = "assigned"
     /\ \E i, j \in 1..Len(loadLog[k].models) :
          /\ Len(loadLog[k].values[i]) > 1
          /\ loadLog[k].values[j] = <<>>
          /\ loadRel[<<loadLog[k].models[j], loadLog[k].path[Len(loadLog[k].path)]>>] = <<>>

(***************************************************************************)
(* Claims about BelongsToMany                                              *)
(***************************************************************************)
\* C11: after sync(ids) has completed on a parent, that parent's pivot rows
\* are exactly the rows for ids, one per id in the order given, and the
\* pivot rows of every other parent are as they were before the call.
C11_SyncLeavesExactlyIds ==
  (syncCall # <<>> /\ Sync.phase = "done") =>
     /\ RelatedOf(pivotRows, Sync.parent) = Sync.ids
     /\ RowsOfOthers(pivotRows, Sync.parent) = RowsOfOthers(Sync.before, Sync.parent)

\* C11 witness: sync([5,6]) completed on a parent that had rows for [5,7],
\* while another parent has a row of its own.
C11_Witness ==
  /\ syncCall # <<>>
  /\ Sync.phase = "done"
  /\ Sync.ids = <<5, 6>>
  /\ RelatedOf(Sync.before, Sync.parent) = <<5, 7>>
  /\ RowsOfOthers(Sync.before, Sync.parent) # <<>>
  /\ RelatedOf(pivotRows, Sync.parent) = <<5, 6>>

(***************************************************************************)
(* Claims about the compile cache's size                                   *)
(***************************************************************************)
\* C12: the compiled-query cache is bounded.  The capacity taken is one
\* less than the number of query states in play, so that compiling all of
\* them would have to evict the least recently used entry: the cache never
\* holds more entries than that capacity.
C12_CacheWithinCapacity == Len(compCache) <= Len(compQueries) - 1

(***************************************************************************)
(* Claims about drain() and release()                                      *)
(***************************************************************************)
\* an acquire() that is suspended although its resolver is in no queue
Abandoned(c) == pc[c] = "waiting" /\ c \notin SeqToSet(pending)

\* C13: drain() removes every waiting acquire() from the waiter queue
\* without settling it, and no later step (release, acquire, drain, a
\* destructor call) ever settles an acquire() so abandoned.
C13_DrainAbandonsWaiters ==
  [][(Drain => \A c \in SeqToSet(pending) : Abandoned(c)')
       /\ (\A c \in Callers : Abandoned(c) => Abandoned(c)')]_vars

\* C13 witness: an acquire() abandoned by drain is still suspended after a
\* later acquire() created a resource and a later release() put it on the
\* idle list.
C13_Witness ==
  \E c \in Callers : Abandoned(c) /\ available # <<>>

\* the resources the pool tracks: idle or in use
Tracked == SeqToSet(available) \cup inUse

\* the resources the running drain() calls still have to destroy
Queued == UNION {SeqToSet(drainQ[i]) : i \in 1..Len(drainQ)}

\* the number of destructor calls made or still to be made
DestroyCalls ==
  LET RECURSIVE Sum(_)
      Sum(i) == IF i = 0 THEN 0 ELSE Len(drainQ[i]) + Sum(i - 1)
  IN  Len(destroyed) + Sum(Len(drainQ))

\* C14: drain() empties the pool (size() = 0) and, given a destructor, takes
\* every resource that was idle or in use for destruction; each is passed to
\* the destructor once and never twice, one per step, none is dropped, none
\* is tracked by the pool again, and the destructor is called by no other
\* operation than a drain's loop.
C14_DrainDestroysEachOnce ==
  /\ [](DestroyCalls = Cardinality(SeqToSet(destroyed) \cup Queued))
  /\ [](Tracked \cap (SeqToSet(destroyed) \cup Queued) = {})
  /\ [](~hasDestroy => (destroyed = <<>> /\ drainQ = <<>>))
  /\ [][(Drain => (PoolSize' = 0 /\ destroyed' = destroyed))
         /\ ((Drain /\ hasDestroy) => (Queued' = Queued \cup Tracked))
         /\ ((destroyed' # destroyed) =>
               ((\E i \in 1..Len(drainQ) :
                    destroyed' = Append(destroyed, Head(drainQ[i])))
                /\ available' = available /\ inUse' = inUse /\ pending' = pending))
         /\ (SeqToSet(destroyed) \cup Queued \subseteq
               SeqToSet(destroyed') \cup Queued')]_vars

\* C14 witness: a drain took an idle and an in-use resource, destroyed both
\* and has returned; the pool tracks nothing while a caller still holds one.
C14_Witness ==
  /\ hasDestroy
  /\ drainQ = <<>>
  /\ Len(destroyed) = 2
  /\ PoolSize = 0
  /\ \E c \in Callers : pc[c] = "holding" /\ held[c][1] \in SeqToSet(destroyed)

\* C15: release(resource) for a resource that is not in the in-use set (an
\* object the pool never handed out, a resource already released, a resource
\* removed by drain) leaves the idle list, the in-use set and the waiter
\* queue as they are and completes no waiter.
C15_UntrackedReleaseIgnored ==
  [][\A c \in Callers, r \in Resources \cup {Foreign} :
        (ReleaseCall(c, r) /\ r \notin inUse) =>
           (/\ available' = available
            /\ inUse' = inUse
            /\ pending' = pending
            /\ \A w \in Callers : ~Completed(w))]_vars

\* C15 witness: the last release() was ignored, its resource having been
\* taken by a drain, while an acquire() is waiting in the queue.
C15_Witness ==
  /\ stale # <<>>
  /\ stale[1].ignored
  /\ stale[1].resource \in SeqToSet(destroyed) \cup Queued
  /\ pending # <<>>

(***************************************************************************)
(* Claims about HasOne and BelongsToMany eager loading and query counts    *)
(***************************************************************************)
\* the relation kind of the tree node an event of the log belongs to
EventKind(event) == KindOf(event.models[1].table, event.path[Len(event.path)])

\* C16: HasOne.eagerLoadForMany gives every parent the first of the returned
\* rows, in result order, whose foreign key equals the parent's local key,
\* and null when no row matches.
C16_HasOneAssignsFirstRow ==
  \A k \in 1..Len(loadLog) :
     (loadLog[k].kind = "assigned" /\ EventKind(loadLog[k]) = "hasOne") =>
        \A i \in 1..Len(loadLog[k].models) :
           loadLog[k].values[i] =
             IF Matching(loadLog[k].results, LocalKeyOf(loadLog[k].models[i])) = <<>>
             THEN <<>>
             ELSE <<Head(Matching(loadLog[k].results, LocalKeyOf(loadLog[k].models[i])))>>

\* the related ids of a parent's pivot rows for which the related table has a row
LinkedIds(parent) ==
  SelectSeq(RelatedOf(loadTables.role_user, parent),
            LAMBDA id : \E k \in 1..Len(loadTables.roles) : loadTables.roles[k].id = id)

\* C17 as stated: BelongsToMany.eagerLoadForMany gives every parent one
\* related entity per pivot row whose foreign pivot key is the parent's id,
\* in pivot-row order.
C17_OneEntityPerPivotRow ==
  \A k \in 1..Len(loadLog) :
     (loadLog[k].kind = "assigned" /\ EventKind(loadLog[k]) = "belongsToMany") =>
        \A i \in 1..Len(loadLog[k].models) :
           loadLog[k].values[i] =
             [n \in 1..Len(RelatedOf(loadTables.role_user, LocalKeyOf(loadLog[k].models[i]))) |->
                Instance("roles",
                  RelatedOf(loadTables.role_user, LocalKeyOf(loadLog[k].models[i]))[n])]

\* C17, amended: BelongsToMany.eagerLoadForMany gives every parent, in
\* pivot-row order, one related entity per pivot row of that parent whose
\* related id has a row in the related table; a pivot row without such a row
\* gives nothing, and so does a parent without pivot rows.
C17_OneEntityPerLinkedPivotRow ==
  \A k \in 1..Len(loadLog) :
     (loadLog[k].kind = "assigned" /\ EventKind(loadLog[k]) = "belongsToMany") =>
        \A i \in 1..Len(loadLog[k].models) :
           /\ loadLog[k].values[i] =
                [n \in 1..Len(LinkedIds(LocalKeyOf(loadLog[k].models[i]))) |->
                   Instance("roles", LinkedIds(LocalKeyOf(loadLog[k].models[i]))[n])]
           /\ loadRel[<<loadLog[k].models[i], loadLog[k].path[Len(loadLog[k].path)]>>]
                = loadLog[k].values[i]

\* C17 witness: of two parents one got two related entities in the order of
\* its pivot rows, which is not the order of the related table, and the
\* other, having no pivot row, got the empty list.
C17_Witness ==
  \E k \in 1..Len(loadLog) :
     /\ loadLog[k].kind = "assigned"
     /\ EventKind(loadLog[k]) = "belongsToMany"
     /\ \E i, j \in 1..Len(loadLog[k].models) :
          /\ loadLog[k].values[i] = <<Instance("roles", 2), Instance("roles", 1)>>
          /\ loadLog[k].values[j] = <<>>
          /\ RelatedOf(loadTables.role_user, LocalKeyOf(loadLog[k].models[j])) = <<>>

\* how many queries the log holds for the tree node at path, and how many
\* eagerLoadForMany calls have assigned their results there
QueriesAt(path) ==
  Cardinality({k \in 1..Len(loadLog) :
                 loadLog[k].kind = "query" /\ loadLog[k].path = path})

CallsAt(path) ==
  Cardinality({k \in 1..Len(loadLog) :
                 loadLog[k].kind = "assigned" /\ loadLog[k].path = path})

\* the queries of one call when none is skipped
FullQueries(kind) == IF kind = "belongsToMany" THEN 3 ELSE 1

C19_RelationErrorHasCodeAndContext ==
  loadError # <<>> =>
     /\ loadStack = <<>>
     /\ loadError[1].code # <<>>
     /\ loadError[1].context # <<>>

WithinCeiling(v) == IsInteger(v) /\ v.n >= 0 /\ v.n <= LIMIT_CEILING

\* C21: validateLimit and validateOffset return a non-negative integer up
\* to the ceiling unchanged, and fail for every other value, with code
\* INVALID_LIMIT and INVALID_OFFSET respectively.
C21_ValidatorsAcceptUpToCeiling ==
  /\ valResult.limit # <<>> =>
       valResult.limit[1] = IF WithinCeiling(valInput.limit) THEN Ok(valInput.limit)
                            ELSE Thrown("INVALID_LIMIT")
  /\ valResult.offset # <<>> =>
       valResult.offset[1] = IF WithinCeiling(valInput.offset) THEN Ok(valInput.offset)
                             ELSE Thrown("INVALID_OFFSET")

(***************************************************************************)
(* Claims about the order of bindings                                      *)
(***************************************************************************)
\* the bindings that belong to one WHERE clause
OwnBindings(where) ==
  CASE where.type = "basic" -> <<where.value>>
    [] where.type \in {"in", "raw"} -> where.values
    [] where.type = "between" -> <<where.values[1], where.values[2]>>
    [] OTHER -> <<>>

\* the bindings of the clauses before clause i
RECURSIVE BindingsBefore(_, _)
BindingsBefore(wheres, i) ==
  IF i <= 1 THEN <<>>
  ELSE BindingsBefore(wheres, i - 1) \o OwnBindings(wheres[i - 1])

\* the text Grammar.compileWheres renders for clause i
ClauseText(wheres, i) == CompileWhere(wheres[i], WherePrefix(wheres[i], i)).value.sql

\* C22: the bindings of a compiled query are the SET values (compileUpdate
\* only) followed by each WHERE clause's own bindings in clause order, and
\* the text of each clause holds as many placeholders as the clause has
\* bindings, so that the Nth placeholder of the SQL stands for the Nth
\* binding.
C22_BindingsInClauseOrder ==
  (/\ gramResult # <<>>
   /\ GramCall.op \in {"select", "update", "delete"}
   /\ GramCall.result.ok)
  => LET sets == IF GramCall.op = "update" THEN BoundValues(gramInput.values) ELSE <<>>
         all == BindingsBefore(gramInput.wheres, Len(gramInput.wheres) + 1)
     IN /\ GramCall.result.value.bindings = sets \o all
        /\ \A i \in 1..Len(gramInput.wheres) :
              CountPlaceholders(ClauseText(gramInput.wheres, i))
                = Len(OwnBindings(gramInput.wheres[i]))
        /\ CountPlaceholders(GramCall.result.value.sql) = Len(sets) + Len(all)

(***************************************************************************)
(* Claims about Database.transaction                                       *)
(***************************************************************************)
\* the rows the callback of task t inserted
RowsOf(t) == {[task |-> t, n |-> k] : k \in 1..txTask[t].writes}

\* no Database.transaction call is under way
NoCallUnderWay == \A t \in TxTasks : txTask[t].pc \in {"idle", "returned", "threw"}

\* C23: a Database.transaction call whose callback resolved returns the
\* callback's result with the callback's writes kept, a call whose callback
\* rejected throws the callback's error with none of the callback's writes
\* visible, and once the calls have ended the connection has no active
\* transaction.
C23_TransactionCommitsOrRollsBack ==
  /\ \A t \in TxTasks :
       txTask[t].pc = "returned" =>
         txTask[t].outcome = <<"result">> /\ RowsOf(t) \subseteq txDb.rows
  /\ \A t \in TxTasks :
       txTask[t].pc = "threw" =>
         txTask[t].outcome = <<"callback error">> /\ RowsOf(t) \cap txDb.rows = {}
  /\ NoCallUnderWay => ~txConn.transactionActive /\ txDb.saved = <<>>

(***************************************************************************)
(* Claims about the rendering of the WHERE list                            *)
(***************************************************************************)
\* where the k-th clause of the WHERE part starts
NthStart(sql, k) ==
  CHOOSE i \in ClauseStarts(sql) : Cardinality({j \in ClauseStarts(sql) : j <= i}) = k

\* the text of the k-th clause of n: up to the separator before the next
ClauseSegment(sql, k, n) ==
  SubSeq(sql, NthStart(sql, k), IF k = n THEN Len(sql) ELSE NthStart(sql, k + 1) - 2)

\* C24: the WHERE text has one clause per clause of the list, in the order
\* of the list; the first starts with WHERE whatever its boolean is, and
\* every later one starts with its own boolean.
C24_ClausesInOrderWithPrefix ==
  (/\ gramResult # <<>>
   /\ GramCall.op \in {"select", "update", "delete"}
   /\ GramCall.result.ok
   /\ gramInput.wheres # <<>>)
  => /\ Cardinality(ClauseStarts(GramCall.result.value.sql)) = Len(gramInput.wheres)
     /\ \A k \in 1..Len(gramInput.wheres) :
          /\ GramCall.result.value.sql[NthStart(GramCall.result.value.sql, k)]
               = (IF k = 1 THEN "WHERE" ELSE gramInput.wheres[k].boolean)
          /\ ClauseSegment(GramCall.result.value.sql, k, Len(gramInput.wheres))
               = ClauseText(gramInput.wheres, k)

(***************************************************************************)
(* Claims about LRUCache                                                   *)
(***************************************************************************)
LruCall == lruLast[1]

\* the keys the last call removed from the cache
Evicted == KeysOf(LruCall.before) \ KeysOf(lruCache)

\* the key of a set of entries that was touched longest ago
LeastRecentlyTouched(keys, order) ==
  order[CHOOSE i \in 1..Len(order) :
          /\ order[i] \in keys
          /\ \A j \in 1..(i - 1) : order[j] \notin keys]

\* C25: the cache never holds more than maxSize entries; a set of a new key
\* into a full cache evicts exactly one entry, the one whose key was least
\* recently set or hit by get, and no other call removes an entry.
C25_EvictsLeastRecentlyTouched ==
  /\ Len(lruCache) <= LruMaxSize
  /\ lruLast # <<>> =>
       IF LruCall.op = "set" /\ ~LruCall.hit /\ Len(LruCall.before) = LruMaxSize
       THEN Evicted = {LeastRecentlyTouched(KeysOf(LruCall.before), LruCall.touchedBefore)}
       ELSE Evicted = {}

\* a set of a new key evicted an entry of a full cache whose keys had been
\* touched in an order other than the order of their first insertion
C25_Witness ==
  /\ lruLast # <<>>
  /\ LruCall.op = "set"
  /\ ~LruCall.hit
  /\ Len(LruCall.before) = LruMaxSize
  /\ Cardinality(Evicted) = 1
  /\ Len(LruCall.touchedBefore) > LruMaxSize
  /\ \E k \in Evicted : \E e \in KeysOf(lruCache) : e < k

(***************************************************************************)
(* Claims about the soft-delete test under SQL precedence                  *)
(***************************************************************************)
\* the number of clauses of the WHERE part of a text
ClauseCount(sql) == Cardinality(ClauseStarts(sql))

\* the condition of the k-th clause of the WHERE part, without its prefix
ClauseCondition(sql, k) ==
  SubSeq(sql, NthStart(sql, k) + 2,
         IF k = ClauseCount(sql) THEN WhereEnd(sql) ELSE NthStart(sql, k + 1) - 2)

\* AND binds tighter than OR: the clauses between two ORs form one group,
\* numbered by the ORs before it
GroupOf(sql, k) ==
  Cardinality({j \in 2..k : sql[NthStart(sql, j)] = "OR"})

\* the test `"<column>" IS NULL`
IsNullTest(column) == <<"\"">> \o column \o <<"\"", " ", "IS NULL">>

\* the rows whose soft-delete column is not null, as the truth value each
\* clause's condition has on the row
DeletedRows(sql, column) ==
  {holds \in [1..ClauseCount(sql) -> BOOLEAN] :
     \A k \in 1..ClauseCount(sql) :
       ClauseCondition(sql, k) = IsNullTest(column) => ~holds[k]}

\* the WHERE part is true of the row: all clauses of some group hold
Matches(sql, holds) ==
  \E g \in 0..ClauseCount(sql) :
    /\ \E k \in 1..ClauseCount(sql) : GroupOf(sql, k) = g
    /\ \A k \in 1..ClauseCount(sql) : GroupOf(sql, k) = g => holds[k]

\* C26: the SELECT compiled for a state with a soft-delete column and no
\* trashed flag matches no row whose soft-delete column is not null.
C26_DeletedRowsNeverMatch ==
  (/\ compLast # <<>>
   /\ LastCall.result.ok
   /\ LastQuery.softDelete.present
   /\ LastQuery.softDelete.column # <<>>
   /\ ~LastQuery.softDelete.includeTrashed
   /\ ~LastQuery.softDelete.onlyTrashed)
  => \A holds \in DeletedRows(LastCall.result.value.sql, LastQuery.softDelete.column) :
       ~Matches(LastCall.result.value.sql, holds)

(***************************************************************************)
(* Claims about the ownership of pooled resources                          *)
(***************************************************************************)
\* the callers whose acquire() resolved with r and who have not released it
HoldersOf(r) == {c \in Callers : pc[c] = "holding" /\ held[c] = <<r>>}

\* C27: a resource is held by at most one acquirer at a time, also after a
\* previous holder released it once more; a resource that is held is not in
\* the idle list, and no resource is in the idle list and in the in-use set
\* at once.
C27_OneHolderPerResource ==
  \A r \in Resources :
    /\ Cardinality(HoldersOf(r)) <= 1
    /\ HoldersOf(r) # {} => r \notin SeqToSet(available)
    /\ ~(r \in inUse /\ r \in SeqToSet(available))

(***************************************************************************)
(* Claims about the transparency of the compiler's cache                   *)
(***************************************************************************)
\* the cache key compileSelect computes for query state i, when the
\* sanitizer accepts the state
KeyOf(i) ==
  getCacheKey(sanitizeComponents(compQueries[i].components).value,
              sanitizeSoftDelete(compQueries[i].softDelete).value)

Sanitized(i) ==
  /\ sanitizeComponents(compQueries[i].components).ok
  /\ sanitizeSoftDelete(compQueries[i].softDelete).ok

\* C28: as long as no caller has changed an array it was handed, every
\* compileSelect call returns what a compiler with an empty cache returns
\* for the same query state, and a query state that was compiled has a
\* cache key different from that of a state that differs from it after
\* sanitization.
C28_CacheTransparent ==
  /\ (compLast # <<>> /\ compMutations = 0)
       => LastCall.result = FreshCompile(LastQuery.components, LastQuery.softDelete)
  /\ (/\ compLast # <<>>
      /\ LastCall.result.ok
      /\ Sanitized(1)
      /\ Sanitized(2)
      /\ sanitizeComponents(compQueries[1].components)
           # sanitizeComponents(compQueries[2].components))
     => KeyOf(1) # KeyOf(2)

(***************************************************************************)
(* Claims about caller text in the SQL                                     *)
(***************************************************************************)
\* type ComparisonOperator
ComparisonOperators ==
  {"=", "!=", "<>", "<", "<=", ">", ">=", "LIKE", "NOT LIKE", "ILIKE", "NOT ILIKE",
   "IN", "NOT IN", "IS", "IS NOT"}

\* type JoinType
JoinTypes == {"INNER", "LEFT", "RIGHT", "FULL", "CROSS"}

\* the operators and join types of a query state that are written into its SQL
WrittenWords(c) ==
  {c.wheres[i].operator : i \in {j \in 1..Len(c.wheres) : c.wheres[j].type = "basic"}}
  \cup {c.joins[i].operator : i \in 1..Len(c.joins)}

WrittenJoinTypes(c) == {c.joins[i].type : i \in 1..Len(c.joins)}

NoRawClause(c) == \A i \in 1..Len(c.wheres) : c.wheres[i].type # "raw"

\* characters of the test identifiers that no sanitized identifier holds
RejectedCharacters == {"-", ";", "?"}

\* C29: in the SQL compileSelect returns for a state without raw clauses,
\* the operators of WHERE and JOIN clauses and the join types belong to the
\* fixed vocabularies, and of the caller's text only sanitized identifiers
\* appear: no character the sanitizer rejects other than the placeholder
\* that stands for a value.
C29_OnlyVettedTextInSql ==
  (/\ compLast # <<>>
   /\ ~LastCall.mutated
   /\ LastCall.result.ok
   /\ NoRawClause(LastQuery.components))
  => /\ WrittenWords(LastQuery.components) \subseteq ComparisonOperators
     /\ WrittenJoinTypes(LastQuery.components) \subseteq JoinTypes
     /\ \A i \in 1..Len(LastCall.result.value.sql) :
          LastCall.result.value.sql[i] \in RejectedCharacters
            => LastCall.result.value.sql[i] = "?"

\* C30: sync(ids) is all-or-nothing for the parent's pivot rows: when the
\* DELETE of detach() or one of the INSERTs of attach() is rejected, the
\* parent's pivot rows are the ones it had before the call.
C30_SyncAllOrNothing ==
  (syncCall # <<>> /\ Sync.phase = "failed")
    => RelatedOf(pivotRows, Sync.parent) = RelatedOf(Sync.before, Sync.parent)

====
